---- MODULE Spec2Model ----
(***************************************************************************)
(* A model of the sled-snapshots snapshot forest: the VersionForest, the   *)
(* DeltaMap (delta lists stored as linked list nodes), the caller's data   *)
(* trees, and the transactions of src/src/transactions.rs.                  *)
(*                                                                         *)
(* Conventions.                                                            *)
(*   - An Option<T> is a sequence of length 0 (None) or 1 (Some(x)).       *)
(*   - A byte buffer is a sequence of cells.  An 8-byte big-endian u64      *)
(*     field is one cell holding the number; a key or value byte is one    *)
(*     cell.                                                               *)
(*   - A sled tree is a function from its present keys to their values.    *)
(*   - u64::MAX is written -1 (the same bit pattern read as an i64).       *)
(***************************************************************************)
EXTENDS Integers, Sequences, FiniteSets, TLC

\* ------------------------------------------------------------------ bounds

\* IDs sled's generate_id hands out in a run of Spec: 0 .. MaxId - 1.
MaxId == 4
\* IDs handed out in a run of SpecRestore.
MaxIdRestore == 6
\* IDs handed out in a run of SpecDelete.
MaxIdDelete == 6
\* IDs handed out in a run of SpecChain.
MaxIdChain == 9
\* Versions a run of SpecDelete keeps in the forest at one time.
MaxVersionsDelete == 3
\* Longest delta sequence a caller passes to one call in a run of Spec.
MaxDeltas == 1
\* Longest delta sequence a caller passes to one call in a run of SpecRestore.
MaxDeltasRestore == 2
\* Number of snapshot trees a run of Spec creates.
MaxTrees == 2
\* IDs handed out in a run of SpecBranch.
MaxIdBranch == 5
\* Versions a run of SpecBranch keeps in the forest at one time.
MaxVersionsBranch == 4
\* Longest key or value, in bytes, of a delta a run of SpecCodec encodes.
MaxCodecBytes == 2
\* Longest delta sequence a run of SpecCodec encodes.
MaxCodecDeltas == 2

\* ------------------------------------------------------------ program constants

NULL_VERSION == -1

\* ------------------------------------------------------------------ options

None == <<>>

Some(x) == <<x>>

IsSome(o) == o # <<>>

Unwrap(o) == o[1]

\* ------------------------------------------------------------------ sled trees

EmptyTree == <<>>

Has(tree, k) == k \in DOMAIN tree

\* Tree::get
Get(tree, k) == IF k \in DOMAIN tree THEN Some(tree[k]) ELSE None

\* Tree::insert (the old value is read with Get before the call)
Put(tree, k, v) == (k :> v) @@ tree

\* Tree::remove (the old value is read with Get before the call)
Del(tree, k) ==
    IF (DOMAIN tree) \ {k} = {} THEN EmptyTree
    ELSE [x \in (DOMAIN tree) \ {k} |-> tree[x]]

\* ------------------------------------------------------------------ inputs

\* Keys and values are byte strings.
Keys == {<<1>>}

NonEmptyValues == {<<7>>, <<8>>}

Insert(k, v) == [op |-> "Insert", key |-> k, value |-> v]

Remove(k) == [op |-> "Remove", key |-> k]

DeltasOver(vals) == {Insert(k, v) : k \in Keys, v \in vals} \cup {Remove(k) : k \in Keys}

SeqsUpTo(S, n) == {<<>>} \cup UNION {[1..m -> S] : m \in 1..n}

\* Contents a caller's data tree may have when a snapshot tree is created for it.
DataStates(vals) == {EmptyTree} \cup UNION {[D -> vals] : D \in (SUBSET Keys) \ {{}}}

\* ------------------------------------------------------------------ delta codec

\* Delta::encode that writes the value before the key.
DeltaEncodeValueFirst(d) ==
    IF d.op = "Insert"
    THEN <<Len(d.key), Len(d.value)>> \o d.value \o d.key
    ELSE <<Len(d.key), 0>> \o d.key

\* Delta::encode
DeltaEncode(d) ==
    IF d.op = "Insert"
    THEN <<Len(d.key), Len(d.value)>> \o d.key \o d.value
    ELSE <<Len(d.key), 0>> \o d.key

\* RawDelta::num_key_bytes
num_key_bytes(bytes) == bytes[1]

\* RawDelta::num_value_bytes
num_value_bytes(bytes) == bytes[2]

\* RawDelta::key_slice
key_slice(bytes) == SubSeq(bytes, 3, 2 + num_key_bytes(bytes))

\* RawDelta::value_slice
value_slice(bytes) ==
    SubSeq(bytes, 3 + num_key_bytes(bytes), 2 + num_key_bytes(bytes) + num_value_bytes(bytes))

\* RawDelta::range().len()
RawDeltaLen(bytes) == 2 + num_key_bytes(bytes) + num_value_bytes(bytes)

\* From<&RawDelta> for Delta without the num_value_bytes == 0 case of delta.rs 56-57.
DeltaFromRawAlwaysInsert(bytes) == Insert(key_slice(bytes), value_slice(bytes))

\* From<&RawDelta> for Delta
DeltaFromRaw(bytes) ==
    IF num_value_bytes(bytes) = 0
    THEN Remove(key_slice(bytes))
    ELSE Insert(key_slice(bytes), value_slice(bytes))

\* Concatenated encodings of a delta sequence.
RECURSIVE EncodeDeltas(_)
EncodeDeltas(deltas) ==
    IF deltas = <<>> THEN <<>>
    ELSE DeltaEncode(Head(deltas)) \o EncodeDeltas(Tail(deltas))

\* RawDeltaSet::iter_deltas followed by Delta::from on every item.
RECURSIVE iter_deltas(_)
iter_deltas(bytes) ==
    IF Len(bytes) = 0 THEN <<>>
    ELSE <<DeltaFromRaw(bytes)>>
         \o iter_deltas(SubSeq(bytes, RawDeltaLen(bytes) + 1, Len(bytes)))

\* ------------------------------------------------------------------ delta nodes

encode_next_key(next_key) == IF IsSome(next_key) THEN Unwrap(next_key) ELSE NULL_VERSION

decode_next_key(bytes) == IF bytes[1] = NULL_VERSION THEN None ELSE Some(bytes[1])

\* HeadDeltaNode::new_empty, encoded
HeadNewEmpty == <<encode_next_key(None), NULL_VERSION>>

\* HeadDeltaNode::new, encoded
HeadNew(next_key, tail_key) == <<encode_next_key(Some(next_key)), tail_key>>

\* RawHeadDeltaNode::next_key
head_next_key(bytes) == decode_next_key(bytes)

\* RawHeadDeltaNode::tail_key
head_tail_key(bytes) == IF IsSome(head_next_key(bytes)) THEN Some(bytes[2]) ELSE None

encode_delta_node(next_key, deltas) == <<encode_next_key(next_key)>> \o EncodeDeltas(deltas)

\* RawDeltaNode::next_key
node_next_key(bytes) == decode_next_key(bytes)

\* RawDeltaNode::set_next_key
node_set_next_key(bytes, next_key) == [bytes EXCEPT ![1] = encode_next_key(next_key)]

\* RawDeltaNode::deltas
node_deltas(bytes) == SubSeq(bytes, 2, Len(bytes))

\* ------------------------------------------------------------------ version nodes

VersionNode(parent, children) == [parent |-> parent, children |-> children]

\* VersionNode::new_maybe_with_parent
new_maybe_with_parent(parent) == VersionNode(parent, <<>>)

\* VersionNode::encode
VersionNodeEncode(node) ==
    <<IF IsSome(node.parent) THEN Unwrap(node.parent) ELSE NULL_VERSION, Len(node.children)>>
    \o node.children

\* RawVersionNode::parent
raw_parent(bytes) == IF bytes[1] = NULL_VERSION THEN None ELSE Some(bytes[1])

\* RawVersionNode::iter_children
raw_children(bytes) == SubSeq(bytes, 3, 2 + bytes[2])

\* From<RawVersionNode> for VersionNode
VersionNodeDecode(bytes) == VersionNode(raw_parent(bytes), raw_children(bytes))

\* ------------------------------------------------------------------ transactions

(***************************************************************************)
(* The view a transaction closure works on: the three trees as they stand  *)
(* inside the transaction (read-your-writes), sled's ID generator, the     *)
(* outcome so far and the value returned by the last call.                 *)
(*   status: "ok"      the call returned Ok                               *)
(*           "abort"   the call returned abort(())                        *)
(*           "panic"   the call panicked (expect, unwrap, assert, panic!) *)
(*           "diverge" the call never returns (an endless loop)           *)
(***************************************************************************)
Begin(f, dm, data, id) ==
    [forest |-> f, deltaMap |-> dm, data |-> data, nextId |-> id,
     status |-> "ok", ret |-> None]

Ok(t, ret) == [t EXCEPT !.ret = ret]

Abort(t) == [t EXCEPT !.status = "abort", !.ret = None]

Panic(t) == [t EXCEPT !.status = "panic", !.ret = None]

Diverge(t) == [t EXCEPT !.status = "diverge", !.ret = None]

IsOk(t) == t.status = "ok"

\* generate_id of a host whose counter does not advance.
generate_id_stuck(t) == [t EXCEPT !.ret = t.nextId]

\* TransactionalTree::generate_id: monotonic, shared by all trees of the Db.
generate_id(t) == [t EXCEPT !.nextId = @ + 1, !.ret = t.nextId]

Reverse(s) == IF s = <<>> THEN <<>> ELSE [i \in 1..Len(s) |-> s[Len(s) + 1 - i]]

\* ------------------------------------------------------------------ VersionForest

\* TransactionalVersionForest::get_version
get_version(t, version) == Get(t.forest, version)

\* TransactionalVersionForest::create_version
create_version(t, parent_version) ==
    LET g == generate_id(t)
        new_version == g.ret
    IN  IF new_version = NULL_VERSION
           \/ (IsSome(parent_version) /\ Unwrap(parent_version) = NULL_VERSION)
        THEN Panic(g)
        ELSE
        LET new_node == new_maybe_with_parent(parent_version)
            t1 == [g EXCEPT !.forest = Put(@, new_version, VersionNodeEncode(new_node))]
        IN  IF IsSome(new_node.parent)
            THEN LET parent_key == Unwrap(new_node.parent)
                 IN  IF Has(t1.forest, parent_key)
                     THEN LET parent_node == VersionNodeDecode(t1.forest[parent_key])
                              pushed == VersionNode(parent_node.parent,
                                                    Append(parent_node.children, new_version))
                          IN  Ok([t1 EXCEPT !.forest =
                                      Put(@, parent_key, VersionNodeEncode(pushed))],
                                 new_version)
                     ELSE Abort(t1)
            ELSE Ok(t1, new_version)

\* The re-parenting loop of remove_version (version_forest.rs 132-138).
RECURSIVE reparent_children(_, _, _)
reparent_children(t, children, parent) ==
    IF children = <<>> THEN t
    ELSE LET child == Head(children)
         IN  IF ~Has(t.forest, child) THEN Panic(t)
             ELSE LET child_node == VersionNodeDecode(t.forest[child])
                      moved == VersionNode(parent, child_node.children)
                  IN  reparent_children(
                          [t EXCEPT !.forest = Put(@, child, VersionNodeEncode(moved))],
                          Tail(children), parent)

\* remove_version without the root check of version_forest.rs 117-120.
forest_remove_version_any(t, version) ==
    IF ~Has(t.forest, version) THEN Ok(t, None)
    ELSE Ok([t EXCEPT !.forest = Del(@, version)],
            Some(VersionNodeDecode(t.forest[version])))

\* remove_version without the push of the children onto the new parent
\* (version_forest.rs 139-145).
forest_remove_version_unpushed(t, version) ==
    IF ~Has(t.forest, version) THEN Ok(t, None)
    ELSE
    LET rm_node == VersionNodeDecode(t.forest[version])
        t1 == [t EXCEPT !.forest = Del(@, version)]
    IN  IF ~IsSome(rm_node.parent) THEN Abort(t1)
        ELSE
        LET t2 == reparent_children(t1, rm_node.children, rm_node.parent)
        IN  IF ~IsOk(t2) THEN t2 ELSE Ok(t2, Some(rm_node))

\* TransactionalVersionForest::remove_version
forest_remove_version(t, version) ==
    IF ~Has(t.forest, version) THEN Ok(t, None)
    ELSE
    LET rm_node == VersionNodeDecode(t.forest[version])
        t1 == [t EXCEPT !.forest = Del(@, version)]
    IN  IF ~IsSome(rm_node.parent) THEN Abort(t1)
        ELSE
        LET t2 == reparent_children(t1, rm_node.children, rm_node.parent)
            new_parent_key == Unwrap(rm_node.parent)
        IN  IF ~IsOk(t2) THEN t2
            ELSE IF Has(t2.forest, new_parent_key)
            THEN LET new_parent_node == VersionNodeDecode(t2.forest[new_parent_key])
                     pushed == VersionNode(new_parent_node.parent,
                                           new_parent_node.children \o rm_node.children)
                 IN  Ok([t2 EXCEPT !.forest =
                             Put(@, new_parent_key, VersionNodeEncode(pushed))],
                        Some(rm_node))
            ELSE Ok(t2, Some(rm_node))

\* The loop of find_path_to_root (version_forest.rs 158-164): the outcome and the path.
RECURSIVE path_up(_, _, _)
path_up(f, node_bytes, path) ==
    LET parent == raw_parent(node_bytes)
    IN  IF ~IsSome(parent) THEN [status |-> "ok", path |-> path]
        ELSE IF ~Has(f, Unwrap(parent)) THEN [status |-> "panic", path |-> path]
        ELSE IF \E i \in 1..Len(path) : path[i] = Unwrap(parent)
        THEN [status |-> "diverge", path |-> path]
        ELSE path_up(f, f[Unwrap(parent)], Append(path, Unwrap(parent)))

\* TransactionalVersionForest::find_path_to_root
find_path_to_root(t, version) ==
    IF ~IsSome(get_version(t, version)) THEN Abort(t)
    ELSE LET r == path_up(t.forest, t.forest[version], <<version>>)
         IN  IF r.status = "ok" THEN Ok(t, r.path)
             ELSE [t EXCEPT !.status = r.status, !.ret = None]

\* The scan of version_forest.rs 183-194 that stops before its first step.
join_scan_none(s, f, i1, i2, start_join, finish_join) == <<start_join, finish_join>>

\* The scan for the nearest common ancestor (version_forest.rs 181-195), with
\* 1-based positions: both paths are read from their last element backwards.
RECURSIVE join_scan(_, _, _, _, _, _)
join_scan(s, f, i1, i2, start_join, finish_join) ==
    IF i1 < 1 \/ i2 < 1 THEN <<start_join, finish_join>>
    ELSE IF s[i1] # f[i2] THEN <<start_join, finish_join>>
    ELSE join_scan(s, f, i1 - 1, i2 - 1, i1, i2)

\* NoPathExists read as a path without versions.
NoPathAsEmptyPath == [exists |-> TRUE, path |-> <<>>]

NoPathExists == [exists |-> FALSE, path |-> <<>>]

PathExists(path) == [exists |-> TRUE, path |-> path]

\* TransactionalVersionForest::find_path_between_versions
find_path_between_versions(t, start, finish) ==
    LET a == find_path_to_root(t, start)
    IN  IF ~IsOk(a) THEN a
        ELSE
        LET b == find_path_to_root(t, finish)
        IN  IF ~IsOk(b) THEN b
            ELSE
            LET start_to_root == a.ret
                finish_to_root == b.ret
            IN  IF start_to_root[Len(start_to_root)] # finish_to_root[Len(finish_to_root)]
                THEN Ok(t, NoPathExists)
                ELSE LET j == join_scan(start_to_root, finish_to_root,
                                        Len(start_to_root), Len(finish_to_root), 1, 1)
                     IN  Ok(t, PathExists(SubSeq(start_to_root, 1, j[1])
                                          \o Reverse(SubSeq(finish_to_root, 1, j[2] - 1))))

\* TransactionalVersionForest::is_leaf
is_leaf(t, version) ==
    IF ~IsSome(get_version(t, version)) THEN Abort(t)
    ELSE Ok(t, t.forest[version][2] = 0)

\* TransactionalVersionForest::parent_of
parent_of(t, version) ==
    IF ~IsSome(get_version(t, version)) THEN Abort(t)
    ELSE Ok(t, raw_parent(t.forest[version]))

\* ------------------------------------------------------------------ DeltaMap

\* TransactionalDeltaMap::create_node_with_deltas
create_node_with_deltas(t, next_key, deltas) ==
    LET g == generate_id(t)
        deltas_key == g.ret
    IN  Ok([g EXCEPT !.deltaMap = Put(@, deltas_key, encode_delta_node(next_key, deltas))],
           deltas_key)

\* create_empty_version without its insert.
create_empty_version_skipped(t, version) == Ok(t, None)

\* TransactionalDeltaMap::create_empty_version
create_empty_version(t, version) ==
    Ok([t EXCEPT !.deltaMap = Put(@, version, HeadNewEmpty)], None)

\* create_version_with_deltas that creates the list node and no head for `version`.
create_version_with_deltas_headless(t, version, deltas) ==
    Ok(create_node_with_deltas(t, None, deltas), None)

\* TransactionalDeltaMap::create_version_with_deltas
create_version_with_deltas(t, version, deltas) ==
    LET t1 == create_node_with_deltas(t, None, deltas)
        tail_key == t1.ret
    IN  Ok([t1 EXCEPT !.deltaMap = Put(@, version, HeadNew(tail_key, tail_key))], None)

\* TransactionalDeltaMap::get_delta_list_head
get_delta_list_head(t, version) == Get(t.deltaMap, version)

\* is_current_version that takes every version for the current one.
is_current_version_always(t, version) == TRUE

\* TransactionalDeltaMap::is_current_version
is_current_version(t, version) == ~IsSome(get_delta_list_head(t, version))

\* The loop of remove_version (delta_map.rs 90-98): the outcome and the nodes read.
\* A list whose next pointers come back to a node already read is followed for ever.
RECURSIVE walk_nodes(_, _, _, _)
walk_nodes(dm, maybe_next_key, all_delta_nodes, visited) ==
    IF ~IsSome(maybe_next_key) THEN [status |-> "ok", nodes |-> all_delta_nodes]
    ELSE LET next_key == Unwrap(maybe_next_key)
         IN  IF ~Has(dm, next_key) THEN [status |-> "panic", nodes |-> all_delta_nodes]
             ELSE IF next_key \in visited
             THEN [status |-> "diverge", nodes |-> all_delta_nodes]
             ELSE walk_nodes(dm, node_next_key(dm[next_key]),
                             Append(all_delta_nodes, dm[next_key]),
                             visited \cup {next_key})

\* remove_version that reads the list of `version` and leaves its head in the map.
delta_map_remove_version_kept(t, version) ==
    IF Has(t.deltaMap, version)
    THEN LET w == walk_nodes(t.deltaMap, head_next_key(t.deltaMap[version]), <<>>, {})
         IN  IF w.status = "ok" THEN Ok(t, Some(w.nodes))
             ELSE [t EXCEPT !.status = w.status, !.ret = None]
    ELSE Ok(t, None)

\* TransactionalDeltaMap::remove_version
delta_map_remove_version(t, version) ==
    IF Has(t.deltaMap, version)
    THEN LET head == t.deltaMap[version]
             t1 == [t EXCEPT !.deltaMap = Del(@, version)]
             w == walk_nodes(t1.deltaMap, head_next_key(head), <<>>, {})
         IN  IF w.status = "ok" THEN Ok(t1, Some(w.nodes))
             ELSE [t1 EXCEPT !.status = w.status, !.ret = None]
    ELSE Ok(t, None)

\* TransactionalDeltaMap::get_list_node
get_list_node(t, node_key) ==
    IF Has(t.deltaMap, node_key) THEN Ok(t, t.deltaMap[node_key]) ELSE Panic(t)

\* TransactionalDeltaMap::append_deltas
append_deltas(t, version, new_deltas) ==
    IF new_deltas = <<>> THEN Ok(t, None)
    ELSE
    LET maybe_head == get_delta_list_head(t, version)
    IN  IF ~IsSome(maybe_head) THEN Abort(t)
        ELSE
        LET head == Unwrap(maybe_head)
            t1 == create_node_with_deltas(t, None, new_deltas)
            tail_key == t1.ret
            \* if let Some(tail_key) = head.tail_key() { ... }: inside the block
            \* tail_key names the list's previous tail.
            t2 == IF IsSome(head_tail_key(head))
                  THEN LET inner_tail_key == Unwrap(head_tail_key(head))
                           g == get_list_node(t1, inner_tail_key)
                       IN  IF ~IsOk(g) THEN g
                           ELSE [t1 EXCEPT !.deltaMap =
                                    Put(@, inner_tail_key,
                                        node_set_next_key(g.ret, Some(inner_tail_key)))]
                  ELSE t1
        IN  IF ~IsOk(t2) THEN t2
            ELSE LET first == IF IsSome(head_next_key(head))
                              THEN Unwrap(head_next_key(head)) ELSE tail_key
                 IN  Ok([t2 EXCEPT !.deltaMap = Put(@, version, HeadNew(first, tail_key))],
                        None)

\* prepend_deltas that writes nothing.
prepend_deltas_dropped(t, version, new_deltas) == Ok(t, None)

\* TransactionalDeltaMap::prepend_deltas
prepend_deltas(t, version, new_deltas) ==
    IF new_deltas = <<>> THEN Ok(t, None)
    ELSE
    LET maybe_head == get_delta_list_head(t, version)
    IN  IF ~IsSome(maybe_head) THEN Abort(t)
        ELSE
        LET head == Unwrap(maybe_head)
            t1 == create_node_with_deltas(t, head_next_key(head), new_deltas)
            new_next_key == t1.ret
            tail == IF IsSome(head_tail_key(head))
                    THEN Unwrap(head_tail_key(head)) ELSE new_next_key
        IN  Ok([t1 EXCEPT !.deltaMap = Put(@, version, HeadNew(new_next_key, tail))], None)

\* The ID loop of recreate_sublist (delta_map.rs 199-202).
RECURSIVE generate_keys(_, _, _)
generate_keys(t, n, keys) ==
    IF n = 0 THEN Ok(t, keys)
    ELSE LET g == generate_id(t) IN generate_keys(g, n - 1, Append(keys, g.ret))

\* The insert loop of recreate_sublist (delta_map.rs 204-212), from position i.
RECURSIVE insert_sublist(_, _, _, _, _)
insert_sublist(t, raw_delta_nodes, keys, tail_next_key, i) ==
    IF i > Len(raw_delta_nodes) THEN t
    ELSE LET next == IF i < Len(raw_delta_nodes) THEN Some(keys[i + 1]) ELSE tail_next_key
         IN  insert_sublist(
                 [t EXCEPT !.deltaMap =
                     Put(@, keys[i], node_set_next_key(raw_delta_nodes[i], next))],
                 raw_delta_nodes, keys, tail_next_key, i + 1)

\* TransactionalDeltaMap::recreate_sublist; returns <<head, tail>> of the new list.
recreate_sublist(t, raw_delta_nodes, tail_next_key) ==
    IF raw_delta_nodes = <<>> THEN Panic(t)
    ELSE LET g == generate_keys(t, Len(raw_delta_nodes), <<>>)
             keys == g.ret
             t1 == insert_sublist(g, raw_delta_nodes, keys, tail_next_key, 1)
         IN  Ok(t1, <<keys[1], keys[Len(keys)]>>)

\* TransactionalDeltaMap::prepend_raw_delta_nodes
\* prepend_raw_delta_nodes that leaves the list of `version` as it is: the nodes
\* handed over are lost.
prepend_raw_delta_nodes_lost(t, version, raw_delta_nodes) == Ok(t, None)

prepend_raw_delta_nodes(t, version, raw_delta_nodes) ==
    IF raw_delta_nodes = <<>> THEN Ok(t, None)
    ELSE
    LET maybe_head == get_delta_list_head(t, version)
    IN  IF ~IsSome(maybe_head) THEN Panic(t)
        ELSE
        LET version_head == Unwrap(maybe_head)
            t1 == recreate_sublist(t, raw_delta_nodes, head_tail_key(version_head))
            head == t1.ret[1]
            tail == t1.ret[2]
            new_tail == IF IsSome(head_tail_key(version_head))
                        THEN Unwrap(head_tail_key(version_head)) ELSE tail
        IN  IF ~IsOk(t1) THEN t1
            ELSE Ok([t1 EXCEPT !.deltaMap = Put(@, version, HeadNew(head, new_tail))], None)

\* TransactionalVersionForest::delete_tree, with the closure delete_snapshot_tree
\* passes for deleted_version_rx (transactions.rs 324-327) run on every removed version.
RECURSIVE delete_tree_loop(_, _)
delete_tree_loop(t, delete_queue) ==
    IF delete_queue = <<>> THEN Ok(t, None)
    ELSE LET version == delete_queue[Len(delete_queue)]
             popped == SubSeq(delete_queue, 1, Len(delete_queue) - 1)
         IN  IF Has(t.forest, version)
             THEN LET node == t.forest[version]
                      t1 == [t EXCEPT !.forest = Del(@, version)]
                      t2 == delta_map_remove_version(t1, version)
                  IN  IF ~IsOk(t2) THEN t2
                      ELSE delete_tree_loop(t2, popped \o raw_children(node))
             ELSE delete_tree_loop(t, popped)

\* delete_tree that does not follow the children lists: it removes `root` alone.
delete_tree_root_only(t, root) ==
    IF Has(t.forest, root)
    THEN Ok(delta_map_remove_version([t EXCEPT !.forest = Del(@, root)], root), None)
    ELSE Ok(t, None)

delete_tree(t, root) == delete_tree_loop(t, <<root>>)

\* ------------------------------------------------------------------ transactions.rs

\* apply_delta without the read of the old value: the reverse of every delta is a
\* Remove of its key.
apply_delta_blind(data, reverse_deltas, delta) ==
    LET new_data == IF delta.op = "Insert" THEN Put(data, delta.key, delta.value)
                    ELSE Del(data, delta.key)
    IN  <<new_data, Append(reverse_deltas, Remove(delta.key))>>

\* One step of apply_deltas: the data tree and the reverse deltas after `delta`.
apply_delta(data, reverse_deltas, delta) ==
    LET old_value == Get(data, delta.key)
        new_data == IF delta.op = "Insert" THEN Put(data, delta.key, delta.value)
                    ELSE Del(data, delta.key)
        reverse == IF IsSome(old_value) THEN Insert(delta.key, Unwrap(old_value))
                   ELSE Remove(delta.key)
    IN  <<new_data, Append(reverse_deltas, reverse)>>

RECURSIVE apply_loop(_, _, _)
apply_loop(data, reverse_deltas, deltas) ==
    IF deltas = <<>> THEN <<data, reverse_deltas>>
    ELSE LET r == apply_delta(data, reverse_deltas, Head(deltas))
         IN  apply_loop(r[1], r[2], Tail(deltas))

\* apply_deltas: returns the reverse deltas pushed, in the order of `deltas`.
apply_deltas(t, deltas) ==
    LET r == apply_loop(t.data, <<>>, deltas)
    IN  Ok([t EXCEPT !.data = r[1]], r[2])

\* The reverse deltas kept in the order they were pushed.
push_order(reverse_deltas) == reverse_deltas

\* reverse_deltas.reverse() (transactions.rs 107, 130, 218)
reverse_order(reverse_deltas) == Reverse(reverse_deltas)

\* create_snapshot_tree that starts the new tree on an emptied DeltaMap.
create_snapshot_tree_clearing(t) == create_version([t EXCEPT !.deltaMap = <<>>], None)

create_snapshot_tree(t) == create_version(t, None)

\* create_child_snapshot that gives the empty entry to the parent whatever
\* make_current is.
create_child_snapshot_parent_entry(t, parent_version, make_current) ==
    IF make_current /\ ~is_current_version(t, parent_version) THEN Abort(t)
    ELSE LET c == create_version(t, Some(parent_version))
         IN  IF ~IsOk(c) THEN c
             ELSE Ok(create_empty_version(c, parent_version), c.ret)

create_child_snapshot(t, parent_version, make_current) ==
    IF make_current /\ ~is_current_version(t, parent_version) THEN Abort(t)
    ELSE LET c == create_version(t, Some(parent_version))
             child_version == c.ret
         IN  IF ~IsOk(c) THEN c
             ELSE IF make_current
             THEN Ok(create_empty_version(c, parent_version), child_version)
             ELSE Ok(create_empty_version(c, child_version), child_version)

modify_leaf_snapshot(t, version, deltas) ==
    LET l == is_leaf(t, version)
    IN  IF ~IsOk(l) THEN l
        ELSE IF ~l.ret \/ is_current_version(t, version) THEN Abort(t)
        ELSE append_deltas(t, version, deltas)

modify_current_leaf_snapshot(t, current_version, deltas) ==
    LET l == is_leaf(t, current_version)
    IN  IF ~IsOk(l) THEN l
        ELSE IF ~l.ret \/ ~is_current_version(t, current_version) THEN Abort(t)
        ELSE
        LET p == parent_of(t, current_version)
        IN  IF ~IsOk(p) THEN p
            ELSE IF IsSome(p.ret)
            THEN LET a == apply_deltas(t, deltas)
                 IN  prepend_deltas(a, Unwrap(p.ret), reverse_order(a.ret))
            ELSE Ok(t, None)

\* create_child_snapshot_with_deltas that begins with an assertion that `deltas` is
\* not empty.
create_child_snapshot_with_deltas_asserting(t, current_version, deltas) ==
    IF deltas = <<>> THEN Panic(t)
    ELSE IF ~is_current_version(t, current_version) THEN Abort(t)
    ELSE LET c == create_version(t, Some(current_version))
         IN  IF ~IsOk(c) THEN c
             ELSE LET a == apply_deltas(c, deltas)
                  IN  Ok(create_version_with_deltas(a, current_version, reverse_order(a.ret)),
                         c.ret)

\* create_child_snapshot_with_deltas without the reverse_deltas.reverse() of
\* transactions.rs 130.
create_child_snapshot_with_deltas_unreversed(t, current_version, deltas) ==
    IF ~is_current_version(t, current_version) THEN Abort(t)
    ELSE LET c == create_version(t, Some(current_version))
             child_version == c.ret
         IN  IF ~IsOk(c) THEN c
             ELSE LET a == apply_deltas(c, deltas)
                  IN  Ok(create_version_with_deltas(a, current_version, a.ret),
                         child_version)

create_child_snapshot_with_deltas(t, current_version, deltas) ==
    IF ~is_current_version(t, current_version) THEN Abort(t)
    ELSE LET c == create_version(t, Some(current_version))
             child_version == c.ret
         IN  IF ~IsOk(c) THEN c
             ELSE LET a == apply_deltas(c, deltas)
                  IN  Ok(create_version_with_deltas(a, current_version, reverse_order(a.ret)),
                         child_version)

\* Every delta of every node, in list order (transactions.rs 204-210).
RECURSIVE gather_deltas(_)
gather_deltas(raw_delta_nodes) ==
    IF raw_delta_nodes = <<>> THEN <<>>
    ELSE iter_deltas(node_deltas(Head(raw_delta_nodes)))
         \o gather_deltas(Tail(raw_delta_nodes))

\* nudge_version that does not write the reverse deltas for the version it leaves.
nudge_version_unrecorded(t, current_version, target_version) ==
    LET r == delta_map_remove_version(t, target_version)
    IN  IF ~IsOk(r) THEN r
        ELSE IF ~IsSome(r.ret) THEN Panic(r)
        ELSE Ok(apply_deltas(r, gather_deltas(Unwrap(r.ret))), None)

nudge_version(t, current_version, target_version) ==
    LET r == delta_map_remove_version(t, target_version)
    IN  IF ~IsOk(r) THEN r
        ELSE IF ~IsSome(r.ret) THEN Panic(r)
        ELSE LET deltas == gather_deltas(Unwrap(r.ret))
                 a == apply_deltas(r, deltas)
             IN  create_version_with_deltas(a, current_version, reverse_order(a.ret))

\* for (v1, v2) in path.into_iter().tuple_windows() { nudge_version(v1, v2, ..)?; }
RECURSIVE nudge_along(_, _, _)
nudge_along(t, path, i) ==
    IF i >= Len(path) THEN Ok(t, None)
    ELSE LET n == nudge_version(t, path[i], path[i + 1])
         IN  IF ~IsOk(n) THEN n ELSE nudge_along(n, path, i + 1)

\* set_current_version that nudges along the first pair of the path only, where
\* transactions.rs 179-181 nudges along every pair.
set_current_version_one_nudge(t, current_version, target_version) ==
    IF ~is_current_version(t, current_version) THEN Abort(t)
    ELSE LET p == find_path_between_versions(t, current_version, target_version)
         IN  IF ~IsOk(p) THEN p
             ELSE IF p.ret.exists
             THEN nudge_along(t, SubSeq(p.ret.path, 1, IF Len(p.ret.path) > 2 THEN 2
                                                       ELSE Len(p.ret.path)), 1)
             ELSE Panic(t)

\* set_current_version without the check of transactions.rs 172-175 that
\* current_version is the current version.
set_current_version_unchecked(t, current_version, target_version) ==
    LET p == find_path_between_versions(t, current_version, target_version)
    IN  IF ~IsOk(p) THEN p
        ELSE IF p.ret.exists THEN nudge_along(t, p.ret.path, 1)
        ELSE Panic(t)

set_current_version(t, current_version, target_version) ==
    IF ~is_current_version(t, current_version) THEN Abort(t)
    ELSE LET p == find_path_between_versions(t, current_version, target_version)
         IN  IF ~IsOk(p) THEN p
             ELSE IF p.ret.exists THEN nudge_along(t, p.ret.path, 1)
             ELSE Panic(t)

\* The scan of delete_snapshot for a current ancestor (transactions.rs 282-289).
current_is_ancestor(t, path_to_root) ==
    \E i \in 2..Len(path_to_root) : is_current_version(t, path_to_root[i])

\* The loop moving the deltas to every child (transactions.rs 303-306).
RECURSIVE prepend_to_children(_, _, _)
prepend_to_children(t, children, raw_delta_nodes) ==
    IF children = <<>> THEN Ok(t, None)
    ELSE LET q == prepend_raw_delta_nodes(t, Head(children), raw_delta_nodes)
         IN  IF ~IsOk(q) THEN q
             ELSE prepend_to_children(q, Tail(children), raw_delta_nodes)

\* delete_snapshot without the check of transactions.rs 276-279, which removes
\* `version` from both maps whatever it is.
delete_snapshot_unguarded(t, version) ==
    LET f == forest_remove_version(t, version)
    IN  IF ~IsOk(f) THEN f ELSE Ok(delta_map_remove_version(f, version), None)

delete_snapshot(t, version) ==
    IF is_current_version(t, version) THEN Abort(t)
    ELSE
    LET pr == find_path_to_root(t, version)
    IN  IF ~IsOk(pr) THEN pr
        ELSE
        LET is_anc == current_is_ancestor(t, pr.ret)
            f == forest_remove_version(t, version)
        IN  IF ~IsOk(f) THEN f
            ELSE IF ~IsSome(f.ret) THEN Panic(f)
            ELSE
            LET rm_node == Unwrap(f.ret)
                d == delta_map_remove_version(f, version)
            IN  IF ~IsOk(d) THEN d
                ELSE IF ~IsSome(d.ret) THEN Panic(d)
                ELSE IF is_anc
                THEN prepend_to_children(d, rm_node.children, Unwrap(d.ret))
                ELSE IF ~IsSome(rm_node.parent) THEN Panic(d)
                ELSE Ok(prepend_raw_delta_nodes(d, Unwrap(rm_node.parent), Unwrap(d.ret)),
                        None)

delete_snapshot_tree(t, root) == delete_tree(t, root)

\* ------------------------------------------------------------------ state

VARIABLES
    forest,     \* the VersionForest tree: version -> encoded VersionNode
    deltaMap,   \* the DeltaMap tree: version or list key -> encoded head or list node
    dataTree,   \* the callers' data trees, one per snapshot tree: root -> (key -> value)
    nextId,     \* the next ID generate_id returns
    snap,       \* history: version -> the data tree content that version stands for
    cur,        \* history: root -> the version the root's data tree was last moved to
    deleted,    \* history: the versions removed by delete_snapshot
    pruned,     \* history: the versions removed by delete_snapshot_tree
    codec       \* a delta sequence on its way through Delta::encode and RawDeltaIter

vars == <<forest, deltaMap, dataTree, nextId, snap, cur, deleted, pruned, codec>>

Versions == DOMAIN forest

\* The root of the tree `version` is in, None when it is not in the forest.
TreeRoot(f, version) ==
    IF ~Has(f, version) THEN None
    ELSE LET r == path_up(f, f[version], <<version>>)
         IN  IF r.status = "ok" THEN Some(r.path[Len(r.path)]) ELSE None

\* The data tree a caller hands to a call on `version`: the one of its snapshot tree,
\* and an empty scratch tree when `version` is in no snapshot tree.
DataFor(version) ==
    LET root == TreeRoot(forest, version)
    IN  IF IsSome(root) /\ Has(dataTree, Unwrap(root)) THEN dataTree[Unwrap(root)]
        ELSE EmptyTree

\* The view a transaction on `version` starts from: the committed trees and the data
\* tree of the version's snapshot tree.
Call(version) == Begin(forest, deltaMap, DataFor(version), nextId)

\* The content `version` stands for; a version that stands for none is read as empty.
SnapOf(version) == IF Has(snap, version) THEN snap[version] ELSE EmptyTree

\* `cur` after a committed call moved the data tree of `root` to `version`.
MoveCur(root, version) == IF IsSome(root) THEN Put(cur, Unwrap(root), version) ELSE cur

\* What the deltas mean: the data tree content after applying them in order.
RECURSIVE SemApply(_, _)
SemApply(deltas, data) ==
    IF deltas = <<>> THEN data
    ELSE SemApply(Tail(deltas),
                  IF Head(deltas).op = "Insert"
                  THEN Put(data, Head(deltas).key, Head(deltas).value)
                  ELSE Del(data, Head(deltas).key))

\* The writes of a closure that sled drops: all of them, when the closure aborts or
\* panics.  An ID taken from generate_id is not given back.
rollback(t0, t) == [t0 EXCEPT !.nextId = t.nextId, !.status = t.status]

\* A transaction that keeps the writes of its closure whatever the closure returns.
commit_dirty(t0, t) == t

(***************************************************************************)
(* sled's transaction around a closure (lib.rs 44-59, transactions.rs      *)
(* 520-532), started from the view t0 and run to t: the writes of a        *)
(* closure that returns Ok are kept, those of a closure that aborts or     *)
(* panics are dropped.                                                     *)
(***************************************************************************)
commit(t0, t) == IF IsOk(t) THEN t ELSE rollback(t0, t)

\* The committed trees after the transaction; `root` is the snapshot tree whose data
\* tree the closure was given.
transaction(t0, t, root) ==
    LET c == commit(t0, t)
    IN  /\ nextId' = c.nextId
        /\ forest' = c.forest
        /\ deltaMap' = c.deltaMap
        /\ dataTree' = IF IsOk(t) /\ IsSome(root) THEN Put(dataTree, Unwrap(root), c.data)
                       ELSE dataTree
        /\ UNCHANGED codec

\* No delta sequence is being encoded.
CodecIdle == [pc |-> "idle", input |-> <<>>, bytes |-> <<>>, output |-> <<>>]

Init ==
    /\ forest = EmptyTree
    /\ deltaMap = EmptyTree
    /\ dataTree = EmptyTree
    /\ nextId = 0
    /\ snap = EmptyTree
    /\ cur = EmptyTree
    /\ deleted = {}
    /\ pruned = {}
    /\ codec = CodecIdle

\* ------------------------------------------------------------------ operations

\* A caller opens a data tree holding `data` and creates a snapshot tree for it.
CreateSnapshotTree(data) ==
    LET t0 == Begin(forest, deltaMap, data, nextId)
        t == create_snapshot_tree(t0)
    IN  /\ transaction(t0, t, IF IsOk(t) THEN Some(t.ret) ELSE None)
        /\ snap' = IF IsOk(t) THEN Put(snap, t.ret, data) ELSE snap
        /\ cur' = IF IsOk(t) THEN Put(cur, t.ret, t.ret) ELSE cur
        /\ UNCHANGED <<deleted, pruned>>

CreateChildSnapshot(parent_version, make_current) ==
    LET t == create_child_snapshot(Call(parent_version), parent_version, make_current)
        root == TreeRoot(forest, parent_version)
    IN  /\ transaction(Call(parent_version), t, root)
        /\ snap' = IF IsOk(t) THEN Put(snap, t.ret, SnapOf(parent_version)) ELSE snap
        /\ cur' = IF IsOk(t) /\ make_current THEN MoveCur(root, t.ret) ELSE cur
        /\ UNCHANGED <<deleted, pruned>>

ModifyLeafSnapshot(version, deltas) ==
    LET t == modify_leaf_snapshot(Call(version), version, deltas)
    IN  /\ transaction(Call(version), t, TreeRoot(forest, version))
        /\ snap' = IF IsOk(t) THEN Put(snap, version, SemApply(deltas, SnapOf(version)))
                   ELSE snap
        /\ UNCHANGED <<cur, deleted, pruned>>

ModifyCurrentLeafSnapshot(current_version, deltas) ==
    LET t == modify_current_leaf_snapshot(Call(current_version), current_version, deltas)
    IN  /\ transaction(Call(current_version), t, TreeRoot(forest, current_version))
        /\ snap' = IF IsOk(t) THEN Put(snap, current_version, t.data) ELSE snap
        /\ UNCHANGED <<cur, deleted, pruned>>

CreateChildSnapshotWithDeltas(current_version, deltas) ==
    LET t == create_child_snapshot_with_deltas(Call(current_version), current_version,
                                               deltas)
        root == TreeRoot(forest, current_version)
    IN  /\ transaction(Call(current_version), t, root)
        /\ snap' = IF IsOk(t) THEN Put(snap, t.ret, t.data) ELSE snap
        /\ cur' = IF IsOk(t) THEN MoveCur(root, t.ret) ELSE cur
        /\ UNCHANGED <<deleted, pruned>>

SetCurrentVersion(current_version, target_version) ==
    LET t == set_current_version(Call(current_version), current_version, target_version)
        root == TreeRoot(forest, current_version)
    IN  /\ transaction(Call(current_version), t, root)
        /\ cur' = IF IsOk(t) THEN MoveCur(root, target_version) ELSE cur
        /\ UNCHANGED <<snap, deleted, pruned>>

DeleteSnapshot(version) ==
    LET t == delete_snapshot(Call(version), version)
    IN  /\ transaction(Call(version), t, TreeRoot(forest, version))
        /\ deleted' = IF IsOk(t) THEN deleted \cup (Versions \ DOMAIN t.forest) ELSE deleted
        /\ UNCHANGED <<snap, cur, pruned>>

DeleteSnapshotTree(root) ==
    LET t == delete_snapshot_tree(Call(root), root)
    IN  /\ transaction(Call(root), t, TreeRoot(forest, root))
        /\ pruned' = IF IsOk(t) THEN pruned \cup (Versions \ DOMAIN t.forest) ELSE pruned
        /\ UNCHANGED <<snap, cur, deleted>>

\* ------------------------------------------------------------------ inputs of a run

\* Every ID a caller may pass: those handed out so far (versions, deleted versions
\* and list keys), the one generate_id hands out next, and one after it.
Ids == 0..(nextId + 1)

\* The version arguments of a run: the versions of the forest, the versions that
\* delete_snapshot has removed, and the ID that generate_id hands out next, which
\* names no version yet.
Args == Versions \cup deleted \cup {nextId}

\* The root arguments of delete_snapshot_tree in a run: the versions without
\* parent and the ID that generate_id hands out next.
TreeArgs == {v \in Versions : raw_parent(forest[v]) = None} \cup {nextId}

DeltaSeqs == SeqsUpTo(DeltasOver(NonEmptyValues), MaxDeltas)

DeltaSeqsRestore == SeqsUpTo(DeltasOver(NonEmptyValues), MaxDeltasRestore)

\* The run hands out at most `max` IDs and creates at most `trees` snapshot trees.
Within(max, trees) == nextId' <= max /\ Cardinality(DOMAIN dataTree') <= trees

\* Every transaction, on the version arguments of a run.  A data tree is opened
\* empty or holding the first value; the deltas of a run write either value.
Next ==
    \/ \E data \in DataStates({<<7>>}) :
           CreateSnapshotTree(data) /\ Within(MaxId, MaxTrees)
    \/ \E p \in Args, mc \in BOOLEAN :
           CreateChildSnapshot(p, mc) /\ Within(MaxId, MaxTrees)
    \/ \E v \in Args, D \in DeltaSeqs :
           ModifyLeafSnapshot(v, D) /\ Within(MaxId, MaxTrees)
    \/ \E c \in Args, D \in DeltaSeqs :
           ModifyCurrentLeafSnapshot(c, D) /\ Within(MaxId, MaxTrees)
    \/ \E c \in Args, D \in DeltaSeqs :
           CreateChildSnapshotWithDeltas(c, D) /\ Within(MaxId, MaxTrees)
    \/ \E c \in Args, v \in Args :
           SetCurrentVersion(c, v) /\ Within(MaxId, MaxTrees)
    \/ \E v \in Args : DeleteSnapshot(v) /\ Within(MaxId, MaxTrees)
    \/ \E r \in TreeArgs : DeleteSnapshotTree(r) /\ Within(MaxId, MaxTrees)

Spec == Init /\ [][Next]_vars

\* One snapshot tree built by create_snapshot_tree, create_child_snapshot_with_deltas
\* and set_current_version, called on versions of the forest.
NextRestore ==
    \/ \E data \in DataStates(NonEmptyValues) :
           CreateSnapshotTree(data) /\ Within(MaxIdRestore, 1)
    \/ \E c \in Versions, D \in DeltaSeqsRestore :
           CreateChildSnapshotWithDeltas(c, D) /\ Within(MaxIdRestore, 1)
    \/ \E c \in Versions, v \in Versions :
           SetCurrentVersion(c, v) /\ Within(MaxIdRestore, 1)

SpecRestore == Init /\ [][NextRestore]_vars

WithinDelete ==
    Within(MaxIdDelete, 1) /\ Cardinality(DOMAIN forest') <= MaxVersionsDelete

\* One snapshot tree of any shape, with deletions: the transactions of NextRestore,
\* create_child_snapshot and delete_snapshot, called on versions of the forest.
NextDelete ==
    \/ \E data \in DataStates(NonEmptyValues) :
           CreateSnapshotTree(data) /\ WithinDelete
    \/ \E p \in Versions, mc \in BOOLEAN :
           CreateChildSnapshot(p, mc) /\ WithinDelete
    \/ \E c \in Versions, D \in DeltaSeqs :
           CreateChildSnapshotWithDeltas(c, D) /\ WithinDelete
    \/ \E c \in Versions, v \in Versions :
           SetCurrentVersion(c, v) /\ WithinDelete
    \/ \E v \in Versions : DeleteSnapshot(v) /\ WithinDelete

SpecDelete == Init /\ [][NextDelete]_vars

\* The versions of forest `f` whose parent is `version`.
ChildrenIn(f, version) == {c \in DOMAIN f : raw_parent(f[c]) = Some(version)}

\* Every version of the forest has at most one child after the step.
LinearChain == \A v \in DOMAIN forest' : Cardinality(ChildrenIn(forest', v)) <= 1

\* A linear chain built by create_child_snapshot_with_deltas and set_current_version,
\* one delete_snapshot, and set_current_version between the versions that remain.
NextChain ==
    \/ \E data \in DataStates(NonEmptyValues) :
           CreateSnapshotTree(data) /\ Within(MaxIdChain, 1)
    \/ \E c \in Versions, D \in DeltaSeqs :
           /\ deleted = {}
           /\ CreateChildSnapshotWithDeltas(c, D) /\ Within(MaxIdChain, 1)
           /\ LinearChain
    \/ \E c \in Versions, v \in Versions :
           SetCurrentVersion(c, v) /\ Within(MaxIdChain, 1)
    \/ \E v \in Versions :
           /\ deleted = {}
           /\ DeleteSnapshot(v) /\ Within(MaxIdChain, 1)

SpecChain == Init /\ [][NextChain]_vars
\* ------------------------------------------------------------------ restoration

\* Longest delta sequence of the round trips of RoundTrip.
MaxRoundTrip == 3

\* The versions of the tree with root `root`.
TreeOf(root) == {v \in Versions : TreeRoot(forest, v) = Some(root)}

\* The deltas stored for `version`, in list order; empty when it has no entry.
StoredDeltas(version) ==
    LET r == delta_map_remove_version(Call(version), version)
    IN  IF IsOk(r) /\ IsSome(r.ret) THEN gather_deltas(Unwrap(r.ret)) ELSE <<>>

\* C1: in a tree built by create_snapshot_tree, create_child_snapshot_with_deltas and
\* set_current_version, every set_current_version(c, v) that commits from the state
\* reached, with c the current version and v a version of the same tree, leaves the
\* data tree with the content it had when v was last the current version; and the
\* data tree the run has reached has the content of the version it was last moved to.
RestorationCorrect ==
    \A root \in DOMAIN dataTree :
        /\ dataTree[root] = SnapOf(cur[root])
        /\ \A c \in TreeOf(root), v \in TreeOf(root) :
               LET x == set_current_version(Call(c), c, v)
               IN  IsOk(x) => x.data = SnapOf(v)

\* A committed set_current_version has moved back to the root, a second child was
\* created there, and the move from it to its sibling commits and changes the data.
RestorationAcrossBranches ==
    \E root \in DOMAIN dataTree : \E c \in TreeOf(root), v \in TreeOf(root) :
        /\ c # v /\ c # root /\ v # root
        /\ cur[root] = c
        /\ raw_parent(forest[c]) = Some(root) /\ raw_parent(forest[v]) = Some(root)
        /\ LET x == set_current_version(Call(c), c, v)
           IN  IsOk(x) /\ x.data # dataTree[root] /\ x.data # SnapOf(root)

\* C2: from every data tree content S a run reaches and for every delta sequence D
\* with non-empty values, create_child_snapshot_with_deltas(v0, D) followed by
\* set_current_version(v1, v0) commits and leaves the data tree equal to S.
RoundTrip ==
    \A v0 \in Versions :
        is_current_version(Call(v0), v0) =>
            \A D \in SeqsUpTo(DeltasOver(NonEmptyValues), MaxRoundTrip) :
                LET a == create_child_snapshot_with_deltas(Call(v0), v0, D)
                    b == set_current_version(a, a.ret, v0)
                IN  IsOk(a) /\ IsOk(b) /\ b.data = DataFor(v0)

\* A round trip has been run: the current version v0 has a child v1 whose stored
\* deltas insert a key and then remove the same key, and the data tree has the
\* content of v0 again.
RoundTripSameKeyTwice ==
    \E root \in DOMAIN dataTree : \E v1 \in TreeOf(root) :
        /\ raw_parent(forest[v1]) = Some(cur[root])
        /\ is_current_version(Call(cur[root]), cur[root])
        /\ dataTree[root] = SnapOf(cur[root])
        /\ LET D == StoredDeltas(v1)
           IN  /\ Len(D) = 2
               /\ D[1].op = "Insert" /\ D[2].op = "Remove" /\ D[1].key = D[2].key
\* ------------------------------------------------------------------ deletion

\* C3: after delete_snapshot has committed on non-current, non-root versions of a
\* tree of any shape, the data tree has the content of the version it was last moved
\* to, and set_current_version from the current version to any remaining version
\* commits and yields the content that version had before the deletion.
DeletePreservesSemantics ==
    \A root \in DOMAIN dataTree :
        (deleted \cap DOMAIN snap # {}) =>
            /\ dataTree[root] = SnapOf(cur[root])
            /\ \A v \in TreeOf(root) :
                   LET x == set_current_version(Call(cur[root]), cur[root], v)
                   IN  IsOk(x) /\ x.data = SnapOf(v)
\* The list nodes stored for `version`; none when it has no entry.
StoredNodes(version) ==
    LET r == delta_map_remove_version(Call(version), version)
    IN  IF IsOk(r) /\ IsSome(r.ret) THEN Unwrap(r.ret) ELSE <<>>

\* C4: in a linear chain built by create_child_snapshot_with_deltas and
\* set_current_version, before and after one delete_snapshot and after every later
\* set_current_version: a delete_snapshot that commits leaves the data tree as it is,
\* the data tree has the content of the version it was last moved to, and
\* set_current_version from the current version to every remaining version commits
\* and yields the content that version had before the deletion.
ChainDeleteKeepsStates ==
    \A root \in DOMAIN dataTree :
        /\ dataTree[root] = SnapOf(cur[root])
        /\ \A v \in TreeOf(root) :
               LET x == set_current_version(Call(cur[root]), cur[root], v)
                   d == delete_snapshot(Call(v), v)
               IN  /\ IsOk(x) /\ x.data = SnapOf(v)
                   /\ IsOk(d) => d.data = dataTree[root]

\* The current version is the root, the version between it and the leaf x has been
\* deleted and its deltas stand before those of x, and moving to x changes the data.
ChainInteriorDeletedBelowCurrent ==
    \E root \in DOMAIN dataTree : \E d \in deleted, x \in TreeOf(root) :
        /\ cur[root] = root
        /\ \E i \in DOMAIN raw_children(forest[root]) : raw_children(forest[root])[i] = d
        /\ raw_parent(forest[x]) = Some(root)
        /\ Len(StoredNodes(x)) = 2
        /\ SnapOf(d) # SnapOf(root) /\ SnapOf(d) # SnapOf(x)
        /\ LET r == set_current_version(Call(root), root, x)
           IN  IsOk(r) /\ r.data = SnapOf(x)
\* ------------------------------------------------------------------ current version

\* The roots of the forest.
Roots == {v \in Versions : raw_parent(forest[v]) = None}

\* IDs that name or named a version, and the two IDs not handed out yet.
VersionIds == (DOMAIN snap) \cup {nextId, nextId + 1}

\* `version` is the version the data tree of its snapshot tree was last moved to.
IsCurrentOfTree(version) ==
    \E root \in Roots : TreeRoot(forest, version) = Some(root) /\ cur[root] = version

\* The versions of the tree of `root` for which is_current_version returns true.
CurrentVersionsOf(root) == {v \in TreeOf(root) : is_current_version(Call(v), v)}

\* C5: every tree of the forest has exactly one version for which is_current_version
\* returns true, after every committed sequence of transactions; a tree has none
\* only after delete_snapshot_tree, which the claim leaves out, has removed the
\* subtree that held it.
CurrentUnique ==
    \A root \in Roots :
        /\ Cardinality(CurrentVersionsOf(root)) <= 1
        /\ cur[root] \notin pruned => Cardinality(CurrentVersionsOf(root)) = 1

\* A tree of several versions, one of them deleted, whose current version is not
\* the root.
CurrentUniqueAfterDelete ==
    \E root \in Roots :
        /\ deleted # {} /\ pruned = {}
        /\ cur[root] # root
        /\ Cardinality(TreeOf(root)) >= 2
        /\ CurrentVersionsOf(root) = {cur[root]}

ChildIds(version) ==
    {raw_children(forest[version])[i] : i \in DOMAIN raw_children(forest[version])}

\* C7: the parent of every version is in the forest and lists it as a child, every
\* ID in a children list is a version of the forest whose parent is the node that
\* lists it, and the parent links of every version lead to a root.
ForestWellFormed ==
    \A v \in Versions :
        /\ IsSome(raw_parent(forest[v])) =>
               /\ Unwrap(raw_parent(forest[v])) \in Versions
               /\ v \in ChildIds(Unwrap(raw_parent(forest[v])))
        /\ \A c \in ChildIds(v) : c \in Versions /\ raw_parent(forest[c]) = Some(v)
        /\ IsSome(TreeRoot(forest, v))

\* C8 as stated: the versions of the forest are the keys of the DeltaMap.
CoverageOfVersions == DOMAIN forest = DOMAIN deltaMap

\* C8 as amended: the versions of the forest that have a DeltaMap entry are all but
\* the current version of each tree, and every other key of the DeltaMap is an ID
\* that never named a version (a list node); a deleted version keeps no entry.
CoverageOfNonCurrent ==
    /\ \A v \in Versions : Has(deltaMap, v) <=> ~IsCurrentOfTree(v)
    /\ \A k \in (DOMAIN deltaMap) \ Versions : k \notin DOMAIN snap /\ k < nextId
    /\ (deleted \cup pruned) \cap DOMAIN deltaMap = {}

\* The root has an entry and a list node, the current version has no entry, and a
\* deleted version has left the map.
CoverageWithListNodes ==
    \E root \in Roots :
        /\ cur[root] # root /\ deleted # {}
        /\ Has(deltaMap, root) /\ Len(StoredNodes(root)) = 1
        /\ ~Has(deltaMap, cur[root])
        /\ (DOMAIN deltaMap) \ Versions # {}

\* ------------------------------------------------------------------ aborts

\* The transaction started from t0 and run to t leaves the trees as they were when
\* its closure aborts.
Atomic(t0, t) ==
    t.status = "abort" =>
        LET c == commit(t0, t)
        IN  c.forest = forest /\ c.deltaMap = deltaMap /\ c.data = t0.data

StaleCurrentAborts ==
    \A c \in Versions :
        ~IsCurrentOfTree(c) =>
            /\ \A v \in Ids : set_current_version(Call(c), c, v).status = "abort"
            /\ create_child_snapshot(Call(c), c, TRUE).status = "abort"
            /\ \A D \in DeltaSeqs :
                   /\ create_child_snapshot_with_deltas(Call(c), c, D).status = "abort"
                   /\ modify_current_leaf_snapshot(Call(c), c, D).status = "abort"

\* A tree whose current version is not the root has a second leaf that is not
\* current, and the four calls on that leaf abort.
StaleLeafAborts ==
    \E root \in Roots : \E c \in TreeOf(root) :
        /\ c # cur[root] /\ c # root /\ cur[root] # root
        /\ raw_children(forest[c]) = <<>>
        /\ set_current_version(Call(c), c, root).status = "abort"
        /\ create_child_snapshot(Call(c), c, TRUE).status = "abort"
        /\ create_child_snapshot_with_deltas(Call(c), c, <<>>).status = "abort"
        /\ modify_current_leaf_snapshot(Call(c), c, <<>>).status = "abort"

\* ------------------------------------------------------------------ missing versions

\* C11: from every state a run reaches, a call that is given a version ID that is
\* not in the forest aborts: set_current_version when the current or the target
\* version is missing, create_child_snapshot and create_child_snapshot_with_deltas
\* when the parent is missing, and delete_snapshot when the version is missing.
MissingVersionAborts ==
    \A id \in Ids \ Versions :
        /\ \A v \in Ids :
               /\ set_current_version(Call(id), id, v).status = "abort"
               /\ is_current_version(Call(v), v) =>
                      set_current_version(Call(v), v, id).status = "abort"
        /\ \A mc \in BOOLEAN : create_child_snapshot(Call(id), id, mc).status = "abort"
        /\ \A D \in DeltaSeqs :
               create_child_snapshot_with_deltas(Call(id), id, D).status = "abort"
        /\ delete_snapshot(Call(id), id).status = "abort"

\* ------------------------------------------------------------------ delete_snapshot

\* C12: in every state a run reaches and for every version v that is the current
\* version of its tree, whatever the shape of the tree, delete_snapshot(v) aborts and
\* the transaction leaves the forest, the DeltaMap and the data tree as they were.
DeleteCurrentAborts ==
    \A v \in Versions :
        IsCurrentOfTree(v) =>
            LET t == delete_snapshot(Call(v), v)
                c == commit(Call(v), t)
            IN  /\ t.status = "abort"
                /\ c.forest = forest /\ c.deltaMap = deltaMap /\ c.data = DataFor(v)

\* The current version is an interior version, with a parent and a child, of a tree
\* whose data is not empty, and delete_snapshot of it aborts.
DeleteCurrentInterior ==
    \E v \in Versions :
        /\ IsCurrentOfTree(v)
        /\ IsSome(raw_parent(forest[v])) /\ ChildrenIn(forest, v) # {}
        /\ DataFor(v) # EmptyTree
        /\ delete_snapshot(Call(v), v).status = "abort"

\* C13: for every root of the forest, current or not, with or without children,
\* remove_version(root) and delete_snapshot(root) abort, and after the transaction
\* the forest and the DeltaMap are as before: the root and its entry are still there.
DeleteRootAborts ==
    \A root \in Roots :
        LET f == forest_remove_version(Call(root), root)
            d == delete_snapshot(Call(root), root)
        IN  /\ f.status = "abort" /\ d.status = "abort"
            /\ commit(Call(root), f).forest = forest
            /\ commit(Call(root), d).forest = forest
            /\ commit(Call(root), d).deltaMap = deltaMap
            /\ Has(commit(Call(root), d).forest, root)

\* A root that is not current, has a child and a DeltaMap entry: delete_snapshot
\* removes its node, then aborts, and the entry is in the map.
DeleteStaleRootWithChildren ==
    \E root \in Roots :
        /\ cur[root] # root /\ cur[root] \in TreeOf(root)
        /\ ChildrenIn(forest, root) # {}
        /\ Has(deltaMap, root)
        /\ LET d == delete_snapshot(Call(root), root)
           IN  d.status = "abort" /\ ~Has(d.forest, root)

\* ------------------------------------------------------------------ paths

\* The versions on the parent links from `version` to its root, `version` included;
\* defined for the versions of a tree.
RECURSIVE AncestorsOrSelf(_)
AncestorsOrSelf(version) ==
    IF ~IsSome(raw_parent(forest[version])) THEN {version}
    ELSE {version} \cup AncestorsOrSelf(Unwrap(raw_parent(forest[version])))

\* The lowest common ancestor of two versions of one tree.
LowestCommonAncestor(a, b) ==
    CHOOSE c \in AncestorsOrSelf(a) \cap AncestorsOrSelf(b) :
        (AncestorsOrSelf(a) \cap AncestorsOrSelf(b)) \subseteq AncestorsOrSelf(c)

\* `path` passes through `version`.
OnPath(path, version) == \E i \in DOMAIN path : path[i] = version

\* C14: for versions a and b of the same tree find_path_between_versions(a, b)
\* returns PathExists(path) where path repeats no version, begins with a, ends with
\* b, passes through their lowest common ancestor and has a parent and its child at
\* every two consecutive places (the path from v to v is [v]); for versions of
\* different trees it returns NoPathExists.
PathBetweenVersions ==
    \A a \in Versions, b \in Versions :
        (IsSome(TreeRoot(forest, a)) /\ IsSome(TreeRoot(forest, b))) =>
            LET r == find_path_between_versions(Call(a), a, b)
                path == r.ret.path
            IN  /\ IsOk(r)
                /\ r.ret.exists <=> TreeRoot(forest, a) = TreeRoot(forest, b)
                /\ r.ret.exists =>
                       /\ path # <<>> /\ path[1] = a /\ path[Len(path)] = b
                       /\ \A i \in DOMAIN path, j \in DOMAIN path :
                              path[i] = path[j] => i = j
                       /\ OnPath(path, LowestCommonAncestor(a, b))
                       /\ \A i \in 1..(Len(path) - 1) :
                              \/ raw_parent(forest[path[i]]) = Some(path[i + 1])
                              \/ raw_parent(forest[path[i + 1]]) = Some(path[i])
                       /\ a = b => path = <<a>>

\* Two trees; in one of them a and b are on different branches, neither is their
\* lowest common ancestor, and the path between them goes up from a and down to b;
\* a version of the other tree has no path to a.
PathAcrossBranches ==
    \E a \in Versions, b \in Versions, c \in Versions :
        /\ IsSome(TreeRoot(forest, a)) /\ TreeRoot(forest, a) = TreeRoot(forest, b)
        /\ IsSome(TreeRoot(forest, c)) /\ TreeRoot(forest, c) # TreeRoot(forest, a)
        /\ LowestCommonAncestor(a, b) \notin {a, b}
        /\ LET r == find_path_between_versions(Call(a), a, b)
           IN  IsOk(r) /\ r.ret.exists /\ Len(r.ret.path) = 3
        /\ find_path_between_versions(Call(c), c, a).ret = NoPathExists

\* C15: in every state a run reaches, find_path_to_root(v) aborts when v is not in
\* the forest, and find_path_between_versions(start, finish) aborts when start or
\* finish is not in the forest, whichever of the two is the missing one and whatever
\* the other is.
PathOfMissingAborts ==
    \A id \in Ids \ Versions :
        /\ find_path_to_root(Call(id), id).status = "abort"
        /\ \A v \in Ids :
               /\ find_path_between_versions(Call(id), id, v).status = "abort"
               /\ find_path_between_versions(Call(v), v, id).status = "abort"

\* ------------------------------------------------------------------ delete_snapshot_tree

\* C16: in every state a run reaches, also after delete_snapshot has removed
\* versions, a delete_snapshot_tree(r) that commits for a root r leaves neither r nor
\* any version that had r as an ancestor in the forest, and none of them with a
\* DeltaMap entry; and no version removed that way by the run is in either map.
TreeDeletedWhole ==
    /\ \A r \in Roots :
           LET t == delete_snapshot_tree(Call(r), r)
           IN  IsOk(t) => \A v \in TreeOf(r) : ~Has(t.forest, v) /\ ~Has(t.deltaMap, v)
    /\ \A v \in pruned : ~Has(forest, v) /\ ~Has(deltaMap, v)

\* delete_snapshot_tree has removed a root and a version below it after
\* delete_snapshot had removed a version of the same tree, and nothing of the tree is
\* left in the forest.
TreeDeletedAfterDelete ==
    \E r \in pruned, v \in pruned, d \in deleted :
        /\ r # v /\ Has(dataTree, r)
        /\ Cardinality(DOMAIN dataTree) = 1
        /\ Versions = {}
        /\ \A x \in pruned \cup deleted : ~Has(deltaMap, x)

\* ------------------------------------------------------------------ create_child_snapshot

\* The versions of the forest of the view t for which is_current_version is true.
CurrentIn(t) == {v \in DOMAIN t.forest : is_current_version(t, v)}

\* C17: in every state a run reaches and for every version p of the forest, a
\* create_child_snapshot(p, make_current) that commits leaves the data tree as it
\* was and the new version a child of p, and a later set_current_version from the
\* current version of the tree to the new child ends as set_current_version to p did
\* before the call, with the same data tree; with make_current = true the child is
\* current afterwards and p is not; with make_current = false the versions that are
\* current are the same as before and the child is not among them.
ChildIdenticalToParent ==
    \A p \in Versions : \A mc \in BOOLEAN :
        LET t == create_child_snapshot(Call(p), p, mc)
            child == t.ret
        IN  IsOk(t) =>
                /\ t.data = DataFor(p)
                /\ Has(t.forest, child) /\ raw_parent(t.forest[child]) = Some(p)
                /\ mc => is_current_version(t, child) /\ ~is_current_version(t, p)
                /\ ~mc => CurrentIn(t) = CurrentIn(Call(p))
                /\ \A c \in Versions :
                       (IsCurrentOfTree(c) /\ TreeRoot(forest, c) = TreeRoot(forest, p)) =>
                           LET before == set_current_version(Call(c), c, p)
                               after == set_current_version(t, IF mc THEN child ELSE c, child)
                           IN  /\ after.status = before.status
                               /\ IsOk(before) => after.data = before.data

\* A child made by create_child_snapshot(p, false) of a parent p that is not current
\* and whose content differs from the data tree: it is a leaf with an empty entry,
\* is not current, and moving to it yields the content of p.
ChildOfStaleParent ==
    \E p \in Versions, child \in Versions : \E root \in Roots :
        /\ TreeRoot(forest, p) = Some(root) /\ cur[root] \notin {p, child}
        /\ raw_parent(forest[child]) = Some(p)
        /\ Has(deltaMap, child) /\ StoredNodes(child) = <<>>
        /\ raw_children(forest[child]) = <<>>
        /\ SnapOf(p) # dataTree[root]
        /\ LET x == set_current_version(Call(cur[root]), cur[root], child)
           IN  IsOk(x) /\ x.data = SnapOf(p)

\* ------------------------------------------------------------------ modifying leaves

\* The deltas stored for `version` in the view t, in list order.
DeltasIn(t, version) ==
    LET r == delta_map_remove_version(t, version)
    IN  IF IsOk(r) /\ IsSome(r.ret) THEN gather_deltas(Unwrap(r.ret)) ELSE <<>>

\* create_child_snapshot(c, true) followed by modify_current_leaf_snapshot(child, D),
\* the second started from what the first committed.
ChildThenModify(c, D) ==
    LET first == commit(Call(c), create_child_snapshot(Call(c), c, TRUE))
    IN  IF ~IsOk(first) THEN first
        ELSE commit(first, modify_current_leaf_snapshot(first, first.ret, D))

\* C18: in every state a run reaches, for every version c of the forest and every
\* delta sequence D, create_child_snapshot_with_deltas(c, D) commits iff
\* create_child_snapshot(c, true) followed by modify_current_leaf_snapshot(child, D)
\* commits, and then both leave the same data tree, the same forest with the same
\* child, the same current versions and the same sequence of deltas stored at c.
ChildWithDeltasIsChildThenModify ==
    \A c \in Versions : \A D \in DeltaSeqsRestore :
        LET a == commit(Call(c), create_child_snapshot_with_deltas(Call(c), c, D))
            first == create_child_snapshot(Call(c), c, TRUE)
            b == ChildThenModify(c, D)
        IN  /\ IsOk(a) <=> IsOk(b)
            /\ IsOk(a) =>
                   /\ a.data = b.data
                   /\ a.forest = b.forest /\ a.ret = first.ret
                   /\ CurrentIn(a) = CurrentIn(b)
                   /\ DeltasIn(a, c) = DeltasIn(b, c)

\* The current version c, not a root and already the parent of a version, whose
\* child made by create_child_snapshot_with_deltas(c, D) with two deltas on one key
\* changes the data tree and leaves two reverse deltas at c.
ChildWithTwoDeltas ==
    \E c \in Versions : \E D \in DeltaSeqsRestore :
        /\ IsCurrentOfTree(c) /\ IsSome(raw_parent(forest[c]))
        /\ Len(D) = 2
        /\ LET a == create_child_snapshot_with_deltas(Call(c), c, D)
               b == ChildThenModify(c, D)
           IN  /\ IsOk(a) /\ IsOk(b)
               /\ a.data # DataFor(c)
               /\ Len(DeltasIn(a, c)) = 2 /\ DeltasIn(b, c) = DeltasIn(a, c)
               /\ DeltasIn(a, c)[1] # DeltasIn(a, c)[2]

\* The versions of the forest whose parent is `version`: none for a leaf.
IsLeaf(version) == ChildrenIn(forest, version) = {}

\* C19: in every state a run reaches, for every version c that is the current version
\* of its tree and a leaf, a root without parent included, and for every delta
\* sequence D, modify_current_leaf_snapshot(c, D) commits and leaves the data tree
\* with D applied in order, and set_current_version from c to any other version of
\* the tree ends afterwards as it did before, with the same data tree.
ModifyCurrentLeafApplies ==
    \A c \in Versions :
        (IsCurrentOfTree(c) /\ IsLeaf(c)) =>
            \A D \in DeltaSeqs :
                LET t == commit(Call(c), modify_current_leaf_snapshot(Call(c), c, D))
                IN  /\ IsOk(t)
                    /\ t.data = SemApply(D, DataFor(c))
                    /\ \A v \in Versions \ {c} :
                           TreeRoot(forest, v) = TreeRoot(forest, c) =>
                               LET before == set_current_version(Call(c), c, v)
                                   after == set_current_version(t, c, v)
                               IN  /\ after.status = before.status
                                   /\ IsOk(before) => after.data = before.data

\* C20: in every state a run reaches, for every leaf v that is not the current
\* version of its tree, with a stored delta list L that is empty or not, and every
\* delta sequence D, modify_leaf_snapshot(v, D) commits, leaves the data tree as it
\* was and v with the list L followed by D, and a later set_current_version from the
\* current version to v commits with the content v had before with D applied.
ModifyLeafAppends ==
    \A root \in Roots : \A v \in TreeOf(root) :
        (cur[root] \in TreeOf(root) /\ v # cur[root] /\ IsLeaf(v)) =>
            \A D \in DeltaSeqs :
                LET t == commit(Call(v), modify_leaf_snapshot(Call(v), v, D))
                    before == set_current_version(Call(cur[root]), cur[root], v)
                    after == set_current_version(t, cur[root], v)
                    walk == delta_map_remove_version(t, v)
                IN  /\ IsOk(t) /\ t.data = dataTree[root]
                    /\ IsOk(walk) /\ DeltasIn(t, v) = StoredDeltas(v) \o D
                    /\ IsOk(before) => (IsOk(after) /\ after.data = SemApply(D, before.data))

\* ------------------------------------------------------------------ preconditions

\* C21: in every state a run reaches and for every version v of the forest,
\* modify_leaf_snapshot(v, D) aborts exactly when v is the current version of its
\* tree or has a child, and modify_current_leaf_snapshot(v, D) aborts exactly when v
\* is not the current version or has a child, where a child is a version of the
\* forest whose parent is v (a version whose only children were deleted is a leaf
\* again); and a call that aborts leaves the forest, the DeltaMap and the data tree
\* as they were.
LeafGuards ==
    \A v \in Versions : \A D \in DeltaSeqs :
        LET m == modify_leaf_snapshot(Call(v), v, D)
            mc == modify_current_leaf_snapshot(Call(v), v, D)
        IN  /\ m.status = "abort" <=> (IsCurrentOfTree(v) \/ ~IsLeaf(v))
            /\ mc.status = "abort" <=> (~IsCurrentOfTree(v) \/ ~IsLeaf(v))
            /\ Atomic(Call(v), m) /\ Atomic(Call(v), mc)

\* C22: in every state a run reaches, set_current_version(c, t) panics, and so
\* commits nothing, when c is the current version of its tree and t is a version of
\* another tree of the forest.
AcrossTreesPanics ==
    \A c \in Versions, t \in Versions :
        (/\ IsCurrentOfTree(c)
         /\ IsSome(TreeRoot(forest, t))
         /\ TreeRoot(forest, t) # TreeRoot(forest, c)) =>
            LET x == set_current_version(Call(c), c, t)
                y == commit(Call(c), x)
            IN  /\ x.status = "panic"
                /\ y.forest = forest /\ y.deltaMap = deltaMap /\ y.data = DataFor(c)

\* Two trees with two versions each: c is the current version of one and not its
\* root, t is the root of the other and not current, and the call from c to t panics.
AcrossTreesBelowRoots ==
    \E c \in Versions, t \in Roots :
        /\ IsCurrentOfTree(c) /\ IsSome(raw_parent(forest[c]))
        /\ TreeRoot(forest, c) # Some(t)
        /\ ~IsCurrentOfTree(t) /\ ChildrenIn(forest, t) # {}
        /\ set_current_version(Call(c), c, t).status = "panic"

\* C23 as stated: in every state a run reaches and for every current version c,
\* create_child_snapshot_with_deltas(c, []) panics and creates no version.
EmptyDeltasPanic ==
    \A c \in Versions :
        IsCurrentOfTree(c) =>
            LET t == create_child_snapshot_with_deltas(Call(c), c, <<>>)
            IN  t.status = "panic" /\ commit(Call(c), t).forest = forest

\* C23 as amended: in every state a run reaches and for every current version c,
\* create_child_snapshot_with_deltas(c, []) commits: it creates a child of c that is
\* the current version, leaves the data tree as it was and leaves c with an entry
\* that holds no deltas; for a version c that is not current it aborts.
EmptyDeltasCommit ==
    \A c \in Versions :
        LET t == create_child_snapshot_with_deltas(Call(c), c, <<>>)
            child == t.ret
        IN  IF IsCurrentOfTree(c)
            THEN /\ IsOk(t)
                 /\ ~Has(forest, child) /\ Has(t.forest, child)
                 /\ raw_parent(t.forest[child]) = Some(c)
                 /\ t.data = DataFor(c)
                 /\ is_current_version(t, child) /\ ~is_current_version(t, c)
                 /\ Has(t.deltaMap, c) /\ DeltasIn(t, c) = <<>>
            ELSE t.status = "abort"

\* A version with an entry and a list node that holds no deltas is the parent of the
\* current version, which has the content of its parent: a child was created with
\* an empty delta sequence.
ChildWithoutDeltas ==
    \E c \in Versions, child \in Versions :
        /\ IsCurrentOfTree(child) /\ raw_parent(forest[child]) = Some(c)
        /\ IsSome(raw_parent(forest[c]))
        /\ Len(StoredNodes(c)) = 1 /\ StoredDeltas(c) = <<>>
        /\ SnapOf(child) = SnapOf(c) /\ SnapOf(c) # EmptyTree
        /\ create_child_snapshot_with_deltas(Call(child), child, <<>>).status = "ok"

\* ------------------------------------------------------------------ entries

\* C24 as stated: in every state a run reaches, every version that is not the
\* current version of its tree has a DeltaMap entry with at least one delta.
NonCurrentNonEmpty ==
    \A v \in Versions :
        ~IsCurrentOfTree(v) => (Has(deltaMap, v) /\ StoredDeltas(v) # <<>>)

\* C24 as amended: in every state a run reaches, every version that is not the
\* current version of its tree has a DeltaMap entry, a list head whose list may hold
\* no delta at all, and the current version has no entry; a head without list nodes
\* is the entry of a version that is not current.
NonCurrentHasHead ==
    \A v \in Versions :
        /\ ~IsCurrentOfTree(v) => (Has(deltaMap, v) /\ Len(deltaMap[v]) = 2)
        /\ IsCurrentOfTree(v) => ~Has(deltaMap, v)
        /\ (Has(deltaMap, v) /\ deltaMap[v] = HeadNewEmpty) =>
               (~IsCurrentOfTree(v) /\ ~is_current_version(Call(v), v))

\* Two versions that are not current hold no deltas, a parent frozen by
\* create_child_snapshot(p, true) and a child made by create_child_snapshot(p, false),
\* and set_current_version to that child commits and leaves the data tree as it is.
NonCurrentWithoutDeltas ==
    \E p \in Versions, child \in Versions : \E root \in Roots :
        /\ TreeRoot(forest, p) = Some(root) /\ cur[root] \notin {p, child}
        /\ raw_parent(forest[child]) = Some(cur[root])
        /\ raw_parent(forest[cur[root]]) = Some(p)
        /\ Has(deltaMap, p) /\ StoredNodes(p) = <<>>
        /\ Has(deltaMap, child) /\ StoredNodes(child) = <<>>
        /\ dataTree[root] # EmptyTree
        /\ LET x == set_current_version(Call(cur[root]), cur[root], child)
           IN  IsOk(x) /\ x.data = dataTree[root]

\* ------------------------------------------------------------------ delta codec runs

\* The byte strings a delta of SpecCodec is made of, the empty one included.
CodecBytes == SeqsUpTo({0, 1}, MaxCodecBytes)

\* Insert(key, value) and Remove(key) over those byte strings.
CodecDeltas ==
    {Insert(k, v) : k \in CodecBytes, v \in CodecBytes} \cup {Remove(k) : k \in CodecBytes}

\* A caller holds a delta sequence to encode; the trees are empty.
InitCodec ==
    /\ forest = EmptyTree /\ deltaMap = EmptyTree /\ dataTree = EmptyTree
    /\ nextId = 0
    /\ snap = EmptyTree /\ cur = EmptyTree /\ deleted = {} /\ pruned = {}
    /\ \E D \in SeqsUpTo(CodecDeltas, MaxCodecDeltas) :
           codec = [pc |-> "start", input |-> D, bytes |-> <<>>, output |-> <<>>]

\* for delta in deltas.iter() { delta.encode(&mut bytes) } (delta_set.rs 74-77).
EncodeAll ==
    /\ codec.pc = "start"
    /\ codec' = [codec EXCEPT !.pc = "encoded", !.bytes = EncodeDeltas(codec.input)]
    /\ UNCHANGED <<forest, deltaMap, dataTree, nextId, snap, cur, deleted, pruned>>

\* RawDeltaSet::new(bytes).iter_deltas().map(Delta::from).collect() (delta_set.rs 79-83).
DecodeAll ==
    /\ codec.pc = "encoded"
    /\ codec' = [codec EXCEPT !.pc = "decoded", !.output = iter_deltas(codec.bytes)]
    /\ UNCHANGED <<forest, deltaMap, dataTree, nextId, snap, cur, deleted, pruned>>

NextCodec == EncodeAll \/ DecodeAll

SpecCodec == InitCodec /\ [][NextCodec]_vars

\* C25 as stated: for every sequence D of deltas Insert(key, value) and Remove(key)
\* over byte strings, decoding the concatenated encodings of D returns D.
CodecRoundTrip == codec.pc = "decoded" => codec.output = codec.input

\* What the code's encoding can carry of a delta: an Insert of an empty value is
\* written with num_value_bytes = 0, which is the mark of a Remove.
Representable(d) == IF d.op = "Insert" /\ d.value = <<>> THEN Remove(d.key) ELSE d

\* C25 as amended: decoding the concatenated encodings of D returns a sequence of
\* the same length in the same order, in which every Remove(key) and every
\* Insert(key, value) with a non-empty value is returned as it was and every
\* Insert(key, empty) is returned as Remove(key); so D is returned exactly iff no
\* Insert of D has an empty value.
CodecRoundTripNonEmptyValues ==
    codec.pc = "decoded" =>
        /\ Len(codec.output) = Len(codec.input)
        /\ \A i \in DOMAIN codec.input : codec.output[i] = Representable(codec.input[i])
        /\ codec.output = codec.input <=>
               \A i \in DOMAIN codec.input :
                   codec.input[i].op = "Insert" => codec.input[i].value # <<>>

\* A sequence of an Insert with a two-byte key and a one-byte value followed by a
\* Remove with an empty key has been encoded and decoded, and has come back as it was.
CodecRoundTripMixed ==
    /\ codec.pc = "decoded"
    /\ Len(codec.input) = 2
    /\ codec.input[1].op = "Insert" /\ Len(codec.input[1].key) = 2
    /\ Len(codec.input[1].value) = 1
    /\ codec.input[2] = Remove(<<>>)
    /\ Len(codec.bytes) = 7
    /\ codec.output = codec.input

\* ------------------------------------------------------------------ moved deltas

\* The current version of the tree of `version` is a proper ancestor of it.
CurrentIsAbove(version) ==
    \E c \in AncestorsOrSelf(version) \ {version} : IsCurrentOfTree(c)

\* The versions that receive the deltas of `version` when delete_snapshot removes
\* it: its children when the current version is above it, else its parent.
Receivers(version) ==
    IF CurrentIsAbove(version) THEN ChildrenIn(forest, version)
    ELSE {Unwrap(raw_parent(forest[version]))}

\* C26: in every state a run reaches, a delete_snapshot(v) that commits leaves every
\* version that receives the deltas of v, a child or the parent, with the deltas of
\* v in their order followed by its own previous deltas in their order, whatever
\* the number of list nodes the receiver had.
MovedDeltasPrepended ==
    \A root \in Roots : \A v \in TreeOf(root) \ {root} :
        LET t == delete_snapshot(Call(v), v)
        IN  IsOk(t) =>
                \A r \in Receivers(v) :
                    DeltasIn(t, r) = StoredDeltas(v) \o StoredDeltas(r)

\* ------------------------------------------------------------------ deletion and branches

\* The current version of the tree of `version` is in the subtree of `version`.
CurrentIsBelow(version) ==
    \E c \in Versions :
        IsCurrentOfTree(c) /\ c # version
            /\ IsSome(TreeRoot(forest, c)) /\ version \in AncestorsOrSelf(c)

\* What set_current_version from the current version of the tree of `root` to
\* `version` leaves in the data tree, started from the view t.
RestoredIn(t, root, version) == set_current_version(t, cur[root], version)

\* C27: in every state a run reaches, when the current version of the tree of v is
\* neither an ancestor nor a descendant of v, a delete_snapshot(v) that commits
\* leaves the data tree as it is and every remaining version of the tree, the former
\* parent of v among them, restorable to the content it had before the deletion.
DeleteOnOtherBranchKeepsStates ==
    \A root \in Roots : \A v \in TreeOf(root) \ {root} :
        (/\ cur[root] \in TreeOf(root) /\ cur[root] # v
         /\ ~CurrentIsAbove(v) /\ ~CurrentIsBelow(v)) =>
            LET t == delete_snapshot(Call(v), v)
            IN  IsOk(t) =>
                    /\ t.data = dataTree[root]
                    /\ \A w \in TreeOf(root) \ {v} :
                           LET before == RestoredIn(Call(v), root, w)
                               after == RestoredIn(t, root, w)
                           IN  IsOk(before) => (IsOk(after) /\ after.data = before.data)

WithinBranch ==
    Within(MaxIdBranch, 1) /\ Cardinality(DOMAIN forest') <= MaxVersionsBranch

\* One snapshot tree with up to MaxVersionsBranch versions, so that a version below
\* the root can have two children, and one deletion: the transactions of NextDelete
\* called on versions of the forest, delete_snapshot once.
NextBranch ==
    \/ \E data \in DataStates(NonEmptyValues) :
           CreateSnapshotTree(data) /\ WithinBranch
    \/ \E p \in Versions, mc \in BOOLEAN :
           CreateChildSnapshot(p, mc) /\ WithinBranch
    \/ \E c \in Versions, D \in DeltaSeqs :
           CreateChildSnapshotWithDeltas(c, D) /\ WithinBranch
    \/ \E c \in Versions, v \in Versions :
           SetCurrentVersion(c, v) /\ WithinBranch
    \/ \E v \in Versions :
           deleted = {} /\ DeleteSnapshot(v) /\ WithinBranch

SpecBranch == Init /\ [][NextBranch]_vars

\* C28: in every state a run reaches, when v has two or more children and the
\* current version lies in the subtree of one of them, a delete_snapshot(v) that
\* commits leaves every other former child of v, and every descendant of it,
\* restorable to the content it had before the deletion.
DeleteAboveCurrentKeepsSiblings ==
    \A root \in Roots : \A v \in TreeOf(root) \ {root} :
        (/\ cur[root] \in TreeOf(root)
         /\ Cardinality(ChildrenIn(forest, v)) >= 2
         /\ CurrentIsBelow(v)) =>
            LET t == delete_snapshot(Call(v), v)
            IN  IsOk(t) =>
                    \A w \in TreeOf(root) \ {v} :
                        (v \in AncestorsOrSelf(w)
                         /\ \A c \in ChildrenIn(forest, v) :
                                c \in AncestorsOrSelf(w) => c \notin AncestorsOrSelf(cur[root])) =>
                            LET before == RestoredIn(Call(v), root, w)
                                after == RestoredIn(t, root, w)
                            IN  IsOk(before) => (IsOk(after) /\ after.data = before.data)

\* ------------------------------------------------------------------ panics

\* C29: in every state a run of committed transactions on versions of the forest
\* reaches, no transaction called as documented panics: delete_snapshot of a
\* version that is neither a root nor current, set_current_version from the current
\* version to a version of the same tree, and create_child_snapshot of a version
\* each end in a commit or an abort; in particular deleting a leaf and then its
\* former parent does not panic.
CorrectUsageNeverPanics ==
    \A root \in Roots : \A v \in TreeOf(root) :
        /\ (v # root /\ ~IsCurrentOfTree(v)) =>
               delete_snapshot(Call(v), v).status # "panic"
        /\ cur[root] \in TreeOf(root) =>
               set_current_version(Call(v), cur[root], v).status # "panic"
        /\ \A make_current \in BOOLEAN :
               create_child_snapshot(Call(v), v, make_current).status # "panic"

\* ------------------------------------------------------------------ direction of the migration

\* C30: in every state a run reaches, a delete_snapshot(v) that commits removes the
\* DeltaMap entry of v and moves its deltas in one direction: when the current
\* version is a proper ancestor of v, every child of v has the deltas of v followed
\* by its own and no other list changes; otherwise the parent of v has the deltas
\* of v followed by its own and no other list changes.
DeltasMoveAwayFromCurrent ==
    \A root \in Roots : \A v \in TreeOf(root) \ {root} :
        LET t == delete_snapshot(Call(v), v)
        IN  IsOk(t) =>
                /\ ~Has(t.deltaMap, v)
                /\ \A r \in Receivers(v) :
                       DeltasIn(t, r) = StoredDeltas(v) \o StoredDeltas(r)
                /\ \A w \in Versions \ ({v} \cup Receivers(v)) :
                       /\ Has(t.deltaMap, w) = Has(deltaMap, w)
                       /\ DeltasIn(t, w) = StoredDeltas(w)

\* ------------------------------------------------------------------ re-parenting

\* The ancestors of `version`, itself included, in the forest of the view t, as
\* find_path_to_root lists them.
AncestorsIn(t, version) ==
    LET pr == find_path_to_root(t, version)
    IN  IF IsOk(pr) THEN {pr.ret[i] : i \in 1..Len(pr.ret)} ELSE {}

\* C31: in every state a run reaches, a delete_snapshot(v) that commits for a
\* version v below a root takes v out of the VersionForest, gives every child of v
\* the parent p of v, leaves the children list of p as its earlier entries followed
\* by the children of v in their order, and keeps the ancestor relation among the
\* remaining versions of the tree.
ReparentedOnRemoval ==
    \A root \in Roots : \A v \in TreeOf(root) \ {root} :
        LET t == delete_snapshot(Call(v), v)
            rm_node == VersionNodeDecode(forest[v])
            p == Unwrap(rm_node.parent)
        IN  IsOk(t) =>
                /\ ~Has(t.forest, v)
                /\ \A i \in 1..Len(rm_node.children) :
                       /\ Has(t.forest, rm_node.children[i])
                       /\ raw_parent(t.forest[rm_node.children[i]]) = Some(p)
                /\ raw_children(t.forest[p]) = raw_children(forest[p]) \o rm_node.children
                /\ \A a, b \in TreeOf(root) \ {v} :
                       (a \in AncestorsIn(t, b)) <=> (a \in AncestorsOrSelf(b))

\* A deleted version is followed in the children list of its former parent by a
\* child of that parent and by a younger-listed, older-born version that was
\* re-parented from the deleted one.
ReparentedAfterEarlierChildren ==
    \E p \in Versions :
        LET ch == raw_children(forest[p])
        IN  /\ Len(ch) = 3
            /\ ch[1] \in deleted
            /\ ch[3] < ch[2]
            /\ \A i \in {2, 3} : Has(forest, ch[i]) /\ raw_parent(forest[ch[i]]) = Some(p)

\* ------------------------------------------------------------------ order of the stored deltas

\* What apply_deltas records for one delta applied to `data`: the old value of the
\* key as an Insert, or a Remove when the key was absent.
PreImageOf(data, delta) ==
    IF Has(data, delta.key) THEN Insert(delta.key, data[delta.key])
    ELSE Remove(delta.key)

\* The pre-images of the deltas applied in order to `data`, element i for delta i.
PreImages(data, deltas) ==
    IF deltas = <<>> THEN <<>>
    ELSE [i \in 1..Len(deltas) |->
              PreImageOf(SemApply(SubSeq(deltas, 1, i - 1), data), deltas[i])]

\* The versions one nudge away from `version`: its parent and its children.
Neighbours(version) ==
    {w \in Versions : \/ raw_parent(forest[w]) = Some(version)
                      \/ raw_parent(forest[version]) = Some(w)}

\* C32 as stated: in every state a run reaches, the list that
\* create_child_snapshot_with_deltas(c, D) stores at the frozen version c, and the
\* list that one step of set_current_version from c to a neighbour stores at c, is
\* the list of pre-images in the order of the forward deltas.
StoredInForwardOrder ==
    \A root \in Roots :
        LET c == cur[root]
        IN  c \in TreeOf(root) =>
                /\ \A D \in DeltaSeqsRestore :
                       LET t == create_child_snapshot_with_deltas(Call(c), c, D)
                       IN  IsOk(t) => DeltasIn(t, c) = PreImages(dataTree[root], D)
                /\ \A v \in Neighbours(c) :
                       LET t == set_current_version(Call(c), c, v)
                       IN  IsOk(t) =>
                               DeltasIn(t, c) = PreImages(dataTree[root], StoredDeltas(v))

\* C32 amended: the stored list is the list of pre-images in the reverse of the
\* order of the forward deltas: its element i is the pre-image recorded for forward
\* delta n + 1 - i of n.
StoredInReverseOrder ==
    \A root \in Roots :
        LET c == cur[root]
        IN  c \in TreeOf(root) =>
                /\ \A D \in DeltaSeqsRestore :
                       LET t == create_child_snapshot_with_deltas(Call(c), c, D)
                       IN  IsOk(t) =>
                               DeltasIn(t, c) = Reverse(PreImages(dataTree[root], D))
                /\ \A v \in Neighbours(c) :
                       LET t == set_current_version(Call(c), c, v)
                       IN  IsOk(t) =>
                               DeltasIn(t, c) =
                                   Reverse(PreImages(dataTree[root], StoredDeltas(v)))

\* A frozen version holds two different deltas, so that their order shows, and the
\* current version of its tree has moved since by set_current_version.
TwoStoredDeltasAfterNudge ==
    \E root \in Roots : \E v \in TreeOf(root) :
        /\ Len(StoredDeltas(v)) = 2
        /\ StoredDeltas(v)[1] # StoredDeltas(v)[2]
        /\ raw_parent(forest[v]) = Some(cur[root])

\* ------------------------------------------------------------------ frame of set_current_version

\* C33: in every state a run reaches, a set_current_version(c, v) that commits with
\* c # v leaves v current and c not current, every version of the path from c to v
\* except v with a DeltaMap entry, the VersionForest as it was and the delta list of
\* every version off the path as it was; set_current_version(c, c) that commits
\* leaves the VersionForest, the DeltaMap and the data tree as they were.
SetCurrentVersionFrame ==
    \A c \in Versions, v \in Versions :
        LET t0 == Call(c)
            t == set_current_version(t0, c, v)
            path == find_path_between_versions(t0, c, v).ret.path
        IN  IsOk(t) =>
                IF c = v
                THEN /\ t.forest = forest /\ t.deltaMap = deltaMap /\ t.data = t0.data
                ELSE /\ is_current_version(t, v)
                     /\ ~is_current_version(t, c)
                     /\ \A i \in 1..(Len(path) - 1) : Has(t.deltaMap, path[i])
                     /\ t.forest = forest
                     /\ \A w \in Versions :
                            ~OnPath(path, w) =>
                                /\ Has(t.deltaMap, w) = Has(deltaMap, w)
                                /\ Has(deltaMap, w) => t.deltaMap[w] = deltaMap[w]
                                /\ DeltasIn(t, w) = StoredDeltas(w)

\* The current version has moved across a branch point by set_current_version:
\* with no deletion so far, a younger sibling of the current version holds deltas,
\* which only a version that was current receives, and a new version is current
\* only while it is the youngest of its tree.
CurrentMovedAcrossBranches ==
    /\ deleted = {}
    /\ \E root \in Roots : \E s \in TreeOf(root) :
           LET c == cur[root]
           IN  /\ c \in TreeOf(root) /\ c # root /\ s > c
               /\ raw_parent(forest[c]) = raw_parent(forest[s])
               /\ is_current_version(Call(c), c)
               /\ StoredDeltas(s) # <<>>

\* ------------------------------------------------------------------ well-formed lists

\* The keys of the list nodes met by following next pointers from `maybe_next_key`
\* in the DeltaMap dm, as the loop of remove_version follows them; wf is FALSE when
\* a pointer leads to a missing entry or back to a node already met.
RECURSIVE list_keys(_, _, _)
list_keys(dm, maybe_next_key, keys) ==
    IF ~IsSome(maybe_next_key) THEN [wf |-> TRUE, keys |-> keys]
    ELSE LET next_key == Unwrap(maybe_next_key)
         IN  IF ~Has(dm, next_key) \/ OnPath(keys, next_key)
             THEN [wf |-> FALSE, keys |-> keys]
             ELSE list_keys(dm, node_next_key(dm[next_key]), Append(keys, next_key))

\* C34: in every state a run reaches, the list of every version whose head entry
\* has a next pointer is a finite chain of distinct, existing nodes that ends at a
\* node without next pointer, and the key of that node is the tail_key of the head.
ListsWellFormed ==
    \A v \in Versions :
        (Has(deltaMap, v) /\ IsSome(head_next_key(deltaMap[v]))) =>
            LET w == list_keys(deltaMap, head_next_key(deltaMap[v]), <<>>)
            IN  /\ w.wf
                /\ w.keys[Len(w.keys)] = Unwrap(head_tail_key(deltaMap[v]))

\* ------------------------------------------------------------------ orphaned nodes

\* The keys of the list nodes reachable from the head entry of `version`.
ReachableKeys(version) ==
    IF Has(deltaMap, version)
    THEN LET w == list_keys(deltaMap, head_next_key(deltaMap[version]), <<>>)
         IN  {w.keys[i] : i \in 1..Len(w.keys)}
    ELSE {}

\* C35: in every state a run reaches, every key of the DeltaMap is a version of the
\* VersionForest or the key of a list node reachable from the head entry of such a
\* version: removing the deltas of a version leaves none of its list nodes behind.
NoOrphanedNodes ==
    \A k \in DOMAIN deltaMap :
        k \in Versions \/ \E v \in Versions : k \in ReachableKeys(v)

\* ------------------------------------------------------------------ empty values

\* The values a caller may keep in a data tree: sled accepts the empty byte string.
Values == NonEmptyValues \cup {<<>>}

DeltaSeqsAnyValue == SeqsUpTo(DeltasOver(Values), MaxDeltasRestore)

\* The transactions of NextRestore on data trees and deltas whose values may be
\* empty.
NextEmptyValue ==
    \/ \E data \in DataStates(Values) :
           CreateSnapshotTree(data) /\ Within(MaxIdRestore, 1)
    \/ \E c \in Versions, D \in SeqsUpTo(DeltasOver(Values), MaxDeltas) :
           CreateChildSnapshotWithDeltas(c, D) /\ Within(MaxIdRestore, 1)
    \/ \E c \in Versions, v \in Versions :
           SetCurrentVersion(c, v) /\ Within(MaxIdRestore, 1)

SpecEmptyValue == Init /\ [][NextEmptyValue]_vars

\* The keys that the data tree S maps to the empty value and that D touches.
EmptyTouched(S, D) ==
    {k \in DOMAIN S : S[k] = <<>> /\ \E i \in DOMAIN D : D[i].key = k}

\* C36 as stated: from every data tree content S a run reaches that maps a key k
\* to the empty value, and for every delta sequence D that overwrites or removes k,
\* create_child_snapshot_with_deltas(v0, D) followed by set_current_version(v1, v0)
\* commits and leaves the data tree equal to S.
RoundTripEmptyValue ==
    \A v0 \in Versions :
        is_current_version(Call(v0), v0) =>
            \A D \in DeltaSeqsAnyValue :
                EmptyTouched(DataFor(v0), D) # {} =>
                    LET a == create_child_snapshot_with_deltas(Call(v0), v0, D)
                        b == set_current_version(a, a.ret, v0)
                    IN  IsOk(a) /\ IsOk(b) /\ b.data = DataFor(v0)

\* C36 amended: the round trip commits and leaves every key as in S except the keys
\* that S maps to the empty value and D touches, which are absent afterwards.
RoundTripDropsEmptyValue ==
    \A v0 \in Versions :
        is_current_version(Call(v0), v0) =>
            \A D \in DeltaSeqsAnyValue :
                LET S == DataFor(v0)
                    a == create_child_snapshot_with_deltas(Call(v0), v0, D)
                    b == set_current_version(a, a.ret, v0)
                    kept == DOMAIN S \ EmptyTouched(S, D)
                IN  /\ IsOk(a) /\ IsOk(b)
                    /\ DOMAIN b.data = kept
                    /\ \A k \in kept : b.data[k] = S[k]

\* A round trip has been run on a tree whose root snapshot maps a key to the empty
\* value: the root is current again, it has a child that holds deltas on that key,
\* and the key is gone from the data tree.
EmptyValueLostByRoundTrip ==
    \E root \in Roots : \E v1 \in TreeOf(root) : \E k \in Keys :
        /\ cur[root] = root /\ is_current_version(Call(root), root)
        /\ raw_parent(forest[v1]) = Some(root)
        /\ Has(SnapOf(root), k) /\ SnapOf(root)[k] = <<>>
        /\ ~Has(dataTree[root], k)
        /\ \E i \in DOMAIN StoredDeltas(v1) : StoredDeltas(v1)[i].key = k

\* ------------------------------------------------------------------ stale handles

\* Every transaction that takes `c` as the current version, run on the view t,
\* aborts.
HandleRejected(t, c) ==
    /\ \A w \in DOMAIN t.forest : set_current_version(t, c, w).status = "abort"
    /\ create_child_snapshot(t, c, TRUE).status = "abort"
    /\ \A D \in DeltaSeqs :
           /\ create_child_snapshot_with_deltas(t, c, D).status = "abort"
           /\ modify_current_leaf_snapshot(t, c, D).status = "abort"

\* C37: in every state a run reaches, once a create_child_snapshot_with_deltas(c, D)
\* or a set_current_version(c, v) with v # c has committed on the current version
\* c, every transaction of a second client that still passes c as the current
\* version aborts, so that exactly one of the two commits; after a
\* set_current_version back to c the handle c passes the check again.
StaleHandleRejected ==
    \A root \in Roots :
        LET c == cur[root]
        IN  (c \in TreeOf(root) /\ is_current_version(Call(c), c)) =>
                /\ \A D \in DeltaSeqs :
                       LET a == create_child_snapshot_with_deltas(Call(c), c, D)
                           back == set_current_version(a, a.ret, c)
                       IN  IsOk(a) =>
                               /\ HandleRejected(a, c)
                               /\ IsOk(back) => ~HandleRejected(back, c)
                /\ \A v \in TreeOf(root) \ {c} :
                       LET a == set_current_version(Call(c), c, v)
                           back == set_current_version(a, v, c)
                       IN  IsOk(a) =>
                               /\ HandleRejected(a, c)
                               /\ IsOk(back) => ~HandleRejected(back, c)

\* Both kinds of first transaction have committed in a tree: a version that was
\* frozen by create_child_snapshot_with_deltas holds deltas, and the current version
\* has been moved by set_current_version to a version that is not the youngest.
HandleWentStale ==
    /\ deleted = {}
    /\ \E root \in Roots : \E s \in TreeOf(root) :
           /\ cur[root] \in TreeOf(root) /\ s > cur[root]
           /\ StoredDeltas(s) # <<>>
           /\ set_current_version(Call(s), s, cur[root]).status = "abort"

\* ------------------------------------------------------------------ fresh version IDs

\* The keys of the list nodes reachable in the view t from the head entries of the
\* versions of its forest.
NodeKeysIn(t) ==
    UNION {LET w == list_keys(t.deltaMap, head_next_key(t.deltaMap[v]), <<>>)
           IN  {w.keys[i] : i \in 1..Len(w.keys)} :
           v \in {x \in DOMAIN t.forest : Has(t.deltaMap, x)}}

\* The version ID a committed creation returns is new: it is not NULL_VERSION, not
\* an ID returned before (snap records every one, deleted versions included), not a
\* key of the VersionForest or the DeltaMap before the call, and not the key of a
\* list node after it.
FreshVersion(t) ==
    IsOk(t) =>
        /\ t.ret # NULL_VERSION
        /\ t.ret \notin DOMAIN snap
        /\ t.ret \notin DOMAIN forest
        /\ t.ret \notin DOMAIN deltaMap
        /\ t.ret \notin NodeKeysIn(t)

\* C38: in every state a run reaches, the version ID returned by a committed
\* create_snapshot_tree, create_child_snapshot or create_child_snapshot_with_deltas
\* differs from NULL_VERSION, from every version ID returned earlier, deleted
\* versions included, and from every key of a list node of the DeltaMap.
VersionIdsAreFresh ==
    /\ FreshVersion(create_snapshot_tree(Begin(forest, deltaMap, EmptyTree, nextId)))
    /\ \A v \in Ids :
           /\ \A mc \in BOOLEAN : FreshVersion(create_child_snapshot(Call(v), v, mc))
           /\ \A D \in DeltaSeqs :
                  FreshVersion(create_child_snapshot_with_deltas(Call(v), v, D))

\* A version was created after a deletion and after list nodes were written: it is
\* younger than a deleted version and than a list node of the DeltaMap.
VersionCreatedAfterDeletion ==
    \E v \in Versions : \E d \in deleted : \E k \in DOMAIN deltaMap \ DOMAIN snap :
        v > d /\ v > k

\* ------------------------------------------------------------------ tree isolation

\* The view t has, for every version outside the set `tree`, the version node, the
\* DeltaMap entry, the deltas and the current mark of the present state.
KeptOutside(t, tree) ==
    \A x \in Versions \ tree :
        /\ Has(t.forest, x) /\ t.forest[x] = forest[x]
        /\ Has(t.deltaMap, x) = Has(deltaMap, x)
        /\ Has(deltaMap, x) => t.deltaMap[x] = deltaMap[x]
        /\ DeltasIn(t, x) = StoredDeltas(x)
        /\ is_current_version(t, x) = is_current_version(Call(x), x)

\* C39: in every state a run reaches, a transaction that commits on versions of one
\* tree leaves the version nodes, the delta lists and the current version of every
\* other tree as they were, and a create_snapshot_tree that commits leaves every
\* existing version so.
TreeIsolation ==
    /\ LET t == create_snapshot_tree(Begin(forest, deltaMap, EmptyTree, nextId))
       IN  IsOk(t) => KeptOutside(t, {})
    /\ \A root \in Roots :
           LET tree == TreeOf(root)
           IN  \A v \in tree :
                   /\ \A mc \in BOOLEAN :
                          LET t == create_child_snapshot(Call(v), v, mc)
                          IN  IsOk(t) => KeptOutside(t, tree)
                   /\ \A D \in DeltaSeqs :
                          /\ LET t == create_child_snapshot_with_deltas(Call(v), v, D)
                             IN  IsOk(t) => KeptOutside(t, tree)
                          /\ LET t == modify_leaf_snapshot(Call(v), v, D)
                             IN  IsOk(t) => KeptOutside(t, tree)
                          /\ LET t == modify_current_leaf_snapshot(Call(v), v, D)
                             IN  IsOk(t) => KeptOutside(t, tree)
                   /\ \A w \in tree :
                          LET t == set_current_version(Call(v), v, w)
                          IN  IsOk(t) => KeptOutside(t, tree)
                   /\ LET t == delete_snapshot(Call(v), v)
                      IN  IsOk(t) => KeptOutside(t, tree)
                   /\ LET t == delete_snapshot_tree(Call(v), v)
                      IN  IsOk(t) => KeptOutside(t, tree)

\* Two trees have been worked on in turn: each root has a child, and the child of
\* the older root is younger than the other root.
TwoTreesInterleaved ==
    \E r1 \in Roots, r2 \in Roots :
        /\ r1 < r2
        /\ \E c1 \in TreeOf(r1) : c1 > r2
        /\ \E c2 \in TreeOf(r2) : c2 # r2
====
